---------------------------- MODULE Spec2Model ----------------------------
(***************************************************************************)
(* A model of the IPTV proxy (src/src/proxy-server.py, with the places     *)
(* where src/src/enhanced-proxy-server.py and src/src/cctv_discovery.py    *)
(* differ): the channel_sources table and the functions that read and      *)
(* write it, the cache files, and the request handlers proxy_stream and    *)
(* proxy_segment.                                                          *)
(*                                                                         *)
(* Strings are sequences of tokens (<<"http://", "h", "/", "a", ".m3u8">>):*)
(* a token is a piece of text the code never looks inside.  The table is a *)
(* bag of rows: the AUTOINCREMENT id is read by no statement, so rows are  *)
(* kept without it and two equal rows are two copies in the bag.           *)
(* avg_response_time is an exact fraction <<numerator, denominator>>.      *)
(* The column last_checked is written and never read; it is left out.      *)
(***************************************************************************)
EXTENDS Integers, Sequences, FiniteSets, Bags, TLC

VARIABLES
    sources,    \* table channel_sources: a bag of rows
    tokens,     \* table mytv_tokens: a set of [token, expiry]
    cache,      \* the files under CACHE_DIR: path -> [mtime, size]
    now,        \* time.time()
    req         \* the request in flight, one per worker

vars == <<sources, tokens, cache, now, req>>

-----------------------------------------------------------------------------
(* Bounds and input sets *)

\* Outcomes are recorded while the table holds fewer than this many of them
\* (the sum of success_count and fail_count over the rows).
MaxOutcomes == 3

Channels == {"x", "y"}

U_TS   == <<"http://", "h", "/", "live", ".ts">>
U_FLV  == <<"http://", "h", "/", "live", ".flv">>
U_HLS  == <<"http://", "h", "/", "a", ".m3u8">>
U_HLSQ == <<"http://", "h", "/", "a", ".m3u8", "?", "k=v">>
U_MPD  == <<"http://", "h", "/", "a", ".mpd">>
U_MYTV == <<"http://", "mytv", "/", "a", ".mpd">>

\* get_best_source's "no row": Python's None (falsy, like the empty string)
None == <<>>

\* The (channel, url) pairs the administration and discovery register.
Catalog == {<<"x", U_TS>>, <<"x", U_HLS>>, <<"y", U_TS>>}

Priorities == {1, 2}

\* update_channel_sources(..., priority=10)
DISCOVERY_PRIORITY == 10

\* response_time values (seconds) passed to update_source_status
Elapsed == {1, 2}

\* The workers that handle requests (one request each at a time)
Workers == {"w1"}

\* The table channel_sources holds at most this many rows in SpecProxy.
MaxSources == 1

\* The sources registered in SpecProxy, all with the same priority
ProxyCatalog ==
    {<<"x", U_TS>>, <<"x", U_HLS>>, <<"x", U_HLSQ>>, <<"x", U_MPD>>,
     <<"x", U_MYTV>>}

ProxyPriorities == {1}

\* Upstream URLs asked of the segment endpoint (after line 533), or no url
S1 == <<"http://", "h", "/", "v1", "/", "seg", "-", "1", ".ts">>
SegmentUrls == {S1, None}

CACHE_ENABLED == TRUE
CACHE_DIR == "cache"
CACHE_TTL == 3600
MIN_CACHE_BYTES == 1024
MYTV_SUPER_TOKEN == ""

\* The instants at which anything happens
Times == {0, CACHE_TTL, CACHE_TTL + 1}

\* Upstream response bodies, as the sizes of the chunks of iter_content
Bodies == {<<MIN_CACHE_BYTES - 1>>, <<MIN_CACHE_BYTES>>, <<8192, MIN_CACHE_BYTES>>}

\* Tokens the administration stores, and the expiry it gives them
TokenNames == {"T1"}
TokenExpiry == {CACHE_TTL + 2}

\* response_time values measured by proxy_stream
ProxyElapsed == {1}

-----------------------------------------------------------------------------
(* Exact fractions for the FLOAT column avg_response_time *)

RECURSIVE GCD(_, _)
GCD(a, b) ==
    IF b = 0 THEN a ELSE GCD(b, a % b)

RatNorm(n, d) ==
    LET g == GCD(n, d) IN <<n \div g, d \div g>>

RatLess(p, q) ==
    p[1] * q[2] < q[1] * p[2]

RatZero == <<0, 1>>

\* (avg * count + elapsed) / (count + 1)
RunningMean(avg, count, elapsed) ==
    RatNorm(avg[1] * count + elapsed * avg[2], avg[2] * (count + 1))

-----------------------------------------------------------------------------
(* Table channel_sources *)

RECURSIVE SumCopies(_, _)
SumCopies(T, S) ==
    IF S = {} THEN 0
    ELSE LET r == CHOOSE r \in S : TRUE
         IN  CopiesIn(r, T) + SumCopies(T, S \ {r})

Rows(T) == BagToSet(T)

RECURSIVE SumOutcomes(_, _)
SumOutcomes(T, S) ==
    IF S = {} THEN 0
    ELSE LET r == CHOOSE r \in S : TRUE
         IN  CopiesIn(r, T) * (r.success_count + r.fail_count)
                 + SumOutcomes(T, S \ {r})

Matching(T, channel_id, url) ==
    {r \in Rows(T) : r.channel_id = channel_id /\ r.url = url}

\* The column defaults of CREATE TABLE channel_sources
NewRow(channel_id, url, priority) ==
    [channel_id |-> channel_id, url |-> url, priority |-> priority,
     is_active |-> TRUE, success_count |-> 0, fail_count |-> 0,
     avg_response_time |-> RatZero]

\* Mutant: INSERT OR REPLACE, the conflicting row replaced by a fresh one
ConflictUpdateReplaces(r, priority) ==
    NewRow(r.channel_id, r.url, priority)

\* ON CONFLICT(channel_id, url) DO UPDATE SET priority = ?, is_active = 1
ConflictUpdate(r, priority) ==
    [r EXCEPT !.priority = priority, !.is_active = TRUE]

\* Mutant: a plain INSERT, no ON CONFLICT clause
UpsertPlainInsert(T, channel_id, url, priority) ==
    T (+) SetToBag({NewRow(channel_id, url, priority)})

\* INSERT INTO channel_sources ... ON CONFLICT(channel_id, url) DO UPDATE ...
Upsert(T, channel_id, url, priority) ==
    IF Matching(T, channel_id, url) = {}
    THEN T (+) SetToBag({NewRow(channel_id, url, priority)})
    ELSE LET f(r) == IF r \in Matching(T, channel_id, url)
                     THEN ConflictUpdate(r, priority) ELSE r
             img  == {f(r) : r \in Rows(T)}
         IN  [y \in img |-> SumCopies(T, {r \in Rows(T) : f(r) = y})]

\* Mutant: the mean computed with the count already incremented
SuccessUpdatePostIncrement(r, response_time) ==
    [r EXCEPT !.is_active = TRUE,
              !.success_count = r.success_count + 1,
              !.avg_response_time =
                  RunningMean(r.avg_response_time, r.success_count + 1,
                              response_time)]

\* Mutant: a success that does not set is_active
SuccessUpdateKeepsActive(r, response_time) ==
    [r EXCEPT !.success_count = r.success_count + 1,
              !.avg_response_time =
                  RunningMean(r.avg_response_time, r.success_count, response_time)]

\* UPDATE ... SET is_active = 1, success_count = success_count + 1,
\*   avg_response_time = (avg_response_time * success_count + ?) / (success_count + 1)
\* (every right-hand side reads the row as it was before the statement)
SuccessUpdate(r, response_time) ==
    [r EXCEPT !.is_active = TRUE,
              !.success_count = r.success_count + 1,
              !.avg_response_time =
                  RunningMean(r.avg_response_time, r.success_count, response_time)]

\* UPDATE ... SET is_active = 0, fail_count = fail_count + 1
FailUpdate(r) ==
    [r EXCEPT !.is_active = FALSE, !.fail_count = r.fail_count + 1]

\* Mutant: a failure deletes the row
StatusUpdatedDeletesFailed(T, channel_id, url, success, response_time) ==
    IF success
    THEN LET f(r) == IF r \in Matching(T, channel_id, url)
                     THEN SuccessUpdate(r, response_time) ELSE r
             img  == {f(r) : r \in Rows(T)}
         IN  [y \in img |-> SumCopies(T, {r \in Rows(T) : f(r) = y})]
    ELSE [r \in Rows(T) \ Matching(T, channel_id, url) |-> CopiesIn(r, T)]

\* Mutant: WHERE channel_id = ? alone
StatusUpdatedWholeChannel(T, channel_id, url, success, response_time) ==
    LET f(r) == IF r.channel_id = channel_id
                THEN IF success THEN SuccessUpdate(r, response_time)
                     ELSE FailUpdate(r)
                ELSE r
        img  == {f(r) : r \in Rows(T)}
    IN  [y \in img |-> SumCopies(T, {r \in Rows(T) : f(r) = y})]

\* update_source_status: the UPDATE ... WHERE channel_id = ? AND url = ?
StatusUpdated(T, channel_id, url, success, response_time) ==
    LET f(r) == IF r \in Matching(T, channel_id, url)
                THEN IF success THEN SuccessUpdate(r, response_time)
                     ELSE FailUpdate(r)
                ELSE r
        img  == {f(r) : r \in Rows(T)}
    IN  [y \in img |-> SumCopies(T, {r \in Rows(T) : f(r) = y})]

\* Mutant: the first query without AND is_active = 1
ActiveFirstNoFilter(channel_id) ==
    LET S == {r \in Rows(sources) : r.channel_id = channel_id}
    IN  {r \in S : \A q \in S :
            /\ r.priority <= q.priority
            /\ r.priority = q.priority =>
                   ~RatLess(q.avg_response_time, r.avg_response_time)}

\* ORDER BY priority, avg_response_time LIMIT 1 over the active rows: the
\* rows no other row precedes (SQLite leaves the order of equal keys open)
ActiveFirst(channel_id) ==
    LET S == {r \in Rows(sources) : r.channel_id = channel_id /\ r.is_active}
    IN  {r \in S : \A q \in S :
            /\ r.priority <= q.priority
            /\ r.priority = q.priority =>
                   ~RatLess(q.avg_response_time, r.avg_response_time)}

\* ORDER BY priority LIMIT 1 over all rows of the channel
AnyFirst(channel_id) ==
    LET S == {r \in Rows(sources) : r.channel_id = channel_id}
    IN  {r \in S : \A q \in S : r.priority <= q.priority}

\* Mutant: no second query when the first finds nothing
GetBestSourceNoFallback(channel_id) ==
    IF ActiveFirst(channel_id) # {}
    THEN {r.url : r \in ActiveFirst(channel_id)}
    ELSE {None}

\* get_best_source: the set of values the call may return
get_best_source(channel_id) ==
    IF ActiveFirst(channel_id) # {}
    THEN {r.url : r \in ActiveFirst(channel_id)}
    ELSE IF AnyFirst(channel_id) # {}
         THEN {r.url : r \in AnyFirst(channel_id)}
         ELSE {None}

-----------------------------------------------------------------------------
(* Strings *)

\* str.lower() of one token
Lower(tok) ==
    CASE tok = ".M3U8" -> ".m3u8"
      [] tok = ".MPD" -> ".mpd"
      [] tok = "MYTV" -> "mytv"
      [] OTHER -> tok

\* sub in s.lower(), for a sub that is one token
InLower(sub, s) ==
    \E i \in 1..Len(s) : Lower(s[i]) = sub

\* sub in s
Contains(sub, s) ==
    \E i \in 1..Len(s) : s[i] = sub

\* s.endswith(suffix), for a suffix that is one token
EndsWith(s, suffix) ==
    Len(s) > 0 /\ s[Len(s)] = suffix

\* 'mytvsuper' in url.lower() or 'mytv' in url.lower()
IsMytv(url) ==
    InLower("mytvsuper", url) \/ InLower("mytv", url)

\* f"{source_url}{'&' if '?' in source_url else '?'}token={token}"
WithToken(url, token) ==
    url \o <<IF Contains("?", url) THEN "&" ELSE "?", "token=", token>>

\* The least index of a token of `stops` in s from position i on, or Len(s)+1
RECURSIVE FirstOf(_, _, _)
FirstOf(stops, s, i) ==
    IF i > Len(s) \/ s[i] \in stops THEN i ELSE FirstOf(stops, s, i + 1)

\* urlparse(url).path: from the first "/" after scheme and host up to the
\* query or the fragment
UrlPath(url) ==
    LET start == FirstOf({"/"}, url, 1)
        stop  == FirstOf({"?", "#"}, url, 1)
    IN  IF start >= stop THEN <<>> ELSE SubSeq(url, start, stop - 1)

\* The greatest index of sep in s, or 0
RECURSIVE LastIndex(_, _, _)
LastIndex(sep, s, i) ==
    IF i = 0 \/ s[i] = sep THEN i ELSE LastIndex(sep, s, i - 1)

\* s.split('/')[-1]
LastComponent(s) ==
    SubSeq(s, LastIndex("/", s, Len(s)) + 1, Len(s))

\* s.replace(tok, '')
RECURSIVE Without(_, _)
Without(tok, s) ==
    IF s = <<>> THEN <<>>
    ELSE IF Head(s) = tok THEN Without(tok, Tail(s))
         ELSE <<Head(s)>> \o Without(tok, Tail(s))

\* proxy_segment: the segment id of the cache key
SegmentId(segment_url) ==
    LET segment_id == LastComponent(UrlPath(segment_url))
    IN  IF Contains("-", segment_id) /\ EndsWith(segment_id, ".ts")
        THEN Without(".ts", segment_id) \o <<".ts">>
        ELSE segment_id

\* The characters of a channel id, as far as they matter in a file name:
\* the id "x_1" is "x", "_", "1"
Spell(channel_id) ==
    IF channel_id = "x_1" THEN <<"x", "_", "1">> ELSE <<channel_id>>

\* get_cache_path(channel_id, segment_id): the f-string joins the characters
\* of channel_id, "_", those of segment_id and ".ts"
get_cache_path(channel_id, segment_id) ==
    IF segment_id # None
    THEN <<CACHE_DIR, "/">> \o Spell(channel_id) \o <<"_">>
             \o segment_id \o <<".ts">>
    ELSE <<CACHE_DIR, "/">> \o Spell(channel_id) \o <<".stream">>

RECURSIVE SumSeq(_)
SumSeq(s) ==
    IF s = <<>> THEN 0 ELSE Head(s) + SumSeq(Tail(s))

-----------------------------------------------------------------------------
(* Token store and cache files *)

\* INSERT OR REPLACE INTO mytv_tokens (token, expiry): token is UNIQUE
TokenStored(T, token, expiry) ==
    {t \in T : t.token # token} \cup {[token |-> token, expiry |-> expiry]}

\* Mutant: a token is still given out at the second of its expiry
GetMytvTokenAtExpiry ==
    LET live == {t \in tokens : t.expiry >= now}
        last == {t \in live : \A q \in live : q.expiry <= t.expiry}
    IN  IF last # {} THEN {t.token : t \in last} ELSE {MYTV_SUPER_TOKEN}

\* get_mytv_token: the values the call may return
get_mytv_token ==
    LET live == {t \in tokens : t.expiry > now}
        last == {t \in live : \A q \in live : q.expiry <= t.expiry}
    IN  IF last # {} THEN {t.token : t \in last} ELSE {MYTV_SUPER_TOKEN}

\* os.path.exists, time.time() - os.path.getmtime, os.path.getsize
FileStat(path) ==
    IF path \in DOMAIN cache
    THEN [exists |-> TRUE, age |-> now - cache[path].mtime,
          size |-> cache[path].size]
    ELSE [exists |-> FALSE, age |-> 0, size |-> 0]

\* Mutant: a cache check without the size floor
IsCacheValidNoFloor(st) ==
    st.exists /\ ~(st.age > CACHE_TTL)

\* is_cache_valid, on the stat of the path
is_cache_valid(st) ==
    IF ~st.exists THEN FALSE
    ELSE IF st.age > CACHE_TTL THEN FALSE
    ELSE IF st.size < MIN_CACHE_BYTES THEN FALSE
    ELSE TRUE

\* open(path, 'wb'), the writes, close: the file as it is left
Written(path, size) ==
    [q \in DOMAIN cache \cup {path} |->
        IF q = path THEN [mtime |-> now, size |-> size] ELSE cache[q]]

-----------------------------------------------------------------------------
(* Requests *)

NoStat == [exists |-> FALSE, age |-> 0, size |-> 0]

IdleReq ==
    [pc |-> "idle", kind |-> "none", channel_id |-> "", selected |-> None,
     source_url |-> None, route |-> "none", cache_path |-> None,
     stat |-> NoStat, checked |-> FALSE, valid |-> FALSE,
     fetches |-> 0, fetch_ok |-> FALSE, updates |-> 0, response_time |-> 0,
     body |-> <<>>, status |-> 0, served |-> "none"]

\* The handler has returned and its generator is exhausted: the locals are
\* gone, what is left is what the request did
Finished(r, status, served) ==
    [IdleReq EXCEPT !.pc = "done", !.kind = r.kind,
                    !.channel_id = r.channel_id, !.route = r.route,
                    !.checked = r.checked, !.valid = r.valid,
                    !.fetches = r.fetches, !.fetch_ok = r.fetch_ok,
                    !.updates = r.updates, !.status = status,
                    !.served = served]

\* proxy_stream, lines 414-418: the token appended to a MyTV .mpd URL
TokenAppended(source_url, token) ==
    IF IsMytv(source_url) /\ InLower(".mpd", source_url) /\ token # ""
    THEN WithToken(source_url, token)
    ELSE source_url

\* proxy_stream, lines 420-425: which handler the URL goes to
Dispatch(source_url) ==
    IF EndsWith(source_url, ".m3u8") THEN "hls"
    ELSE IF EndsWith(source_url, ".mpd") THEN "mpd"
    ELSE "opaque"

\* proxy_mpd_manifest, lines 339-342: the token appended to a MyTV URL
MpdTokenAppended(source_url, token) ==
    IF IsMytv(source_url) /\ token # ""
    THEN WithToken(source_url, token)
    ELSE source_url

\* Mutant: the upstream is fetched whatever the cache check said
AfterCacheCheckAlwaysFetch(valid) ==
    "fetch"

\* if CACHE_ENABLED and is_cache_valid(cache_path): serve the file, else fetch
AfterCacheCheck(valid) ==
    IF CACHE_ENABLED /\ valid THEN "serve_cache" ELSE "fetch"

-----------------------------------------------------------------------------
(* Initial state: init_database() has created the empty tables *)

Init ==
    /\ sources = EmptyBag
    /\ tokens = {}
    /\ cache = <<>>
    /\ now = 0
    /\ req = [w \in Workers |-> IdleReq]

-----------------------------------------------------------------------------
(* Registry operations *)

\* add_channel_source(channel_id, url, priority)  (route /admin/add_source)
AddChannelSource(channel_id, url, priority) ==
    /\ sources' = Upsert(sources, channel_id, url, priority)
    /\ UNCHANGED <<tokens, cache, now, req>>

\* update_source_status(channel_id, url, success, response_time)
UpdateSourceStatus(channel_id, url, success, response_time) ==
    /\ SumOutcomes(sources, Rows(sources)) < MaxOutcomes
    /\ sources' = StatusUpdated(sources, channel_id, url, success, response_time)
    /\ UNCHANGED <<tokens, cache, now, req>>

\* cctv_discovery.update_channel_sources(db_path, channel_id, url): the same
\* upsert (it also stamps last_checked), always called with the default
\* priority
UpdateChannelSources(channel_id, url) ==
    /\ sources' = Upsert(sources, channel_id, url, DISCOVERY_PRIORITY)
    /\ UNCHANGED <<tokens, cache, now, req>>

Next ==
    \/ \E p \in Catalog, priority \in Priorities :
           AddChannelSource(p[1], p[2], priority)
    \/ \E p \in Catalog : UpdateChannelSources(p[1], p[2])
    \/ \E p \in Catalog, success \in BOOLEAN, e \in Elapsed :
           UpdateSourceStatus(p[1], p[2], success, e)

Spec == Init /\ [][Next]_vars

-----------------------------------------------------------------------------
(* Administration of tokens, and time *)

\* add_mytv_token(token, expiry)  (route /admin/add_mytv_token)
AddMytvToken(token, expiry) ==
    /\ tokens' = TokenStored(tokens, token, expiry)
    /\ UNCHANGED <<sources, cache, now, req>>

Tick ==
    /\ \E t \in Times : t > now /\ now' = t
    /\ UNCHANGED <<sources, tokens, cache, req>>

-----------------------------------------------------------------------------
(* proxy_stream: GET /proxy/channel/<channel_id> *)

Free(w) == req[w].pc \in {"idle", "done"}

\* Lines 407-428: the source is chosen, the token appended, the URL
\* dispatched, and for opaque media the cache path computed
ProxyStreamStart(w, channel_id) ==
    /\ Free(w)
    /\ SumOutcomes(sources, Rows(sources)) < MaxOutcomes
    /\ \E url \in get_best_source(channel_id), token \in get_mytv_token :
           IF url = None
           THEN req' = [req EXCEPT ![w] =
                    Finished([IdleReq EXCEPT !.kind = "channel",
                                             !.channel_id = channel_id],
                             404, "none")]
           ELSE LET source_url == TokenAppended(url, token)
                    route == Dispatch(source_url)
                IN  req' = [req EXCEPT ![w] =
                        [IdleReq EXCEPT
                            !.pc = IF route = "opaque" THEN "cache_check" ELSE route,
                            !.kind = "channel",
                            !.channel_id = channel_id,
                            !.selected = url,
                            !.source_url = source_url,
                            !.route = route,
                            !.cache_path = IF route = "opaque"
                                           THEN get_cache_path(channel_id, None)
                                           ELSE None]]
    /\ UNCHANGED <<sources, tokens, cache, now>>

\* Mutant: the playlist fetched is kept as the channel's cache file
ProxyHlsManifestCached(w) ==
    /\ req[w].pc = "hls"
    /\ \E ok \in BOOLEAN :
           /\ req' = [req EXCEPT ![w] =
                  Finished([req[w] EXCEPT !.fetches = @ + 1, !.fetch_ok = ok],
                           IF ok THEN 200 ELSE 404,
                           IF ok THEN "upstream" ELSE "none")]
           /\ cache' = IF ok
                       THEN Written(get_cache_path(req[w].channel_id, None),
                                    MIN_CACHE_BYTES)
                       ELSE cache
    /\ UNCHANGED <<sources, tokens, now>>

\* proxy_hls_manifest, lines 291-295 (the rewriting follows a fetch that
\* succeeded): no call of update_source_status
ProxyHlsManifest(w) ==
    /\ req[w].pc = "hls"
    /\ \E ok \in BOOLEAN :
           req' = [req EXCEPT ![w] =
               Finished([req[w] EXCEPT !.fetches = @ + 1, !.fetch_ok = ok],
                        IF ok THEN 200 ELSE 404,
                        IF ok THEN "upstream" ELSE "none")]
    /\ UNCHANGED <<sources, tokens, cache, now>>

\* proxy_mpd_manifest, lines 336-346: no call of update_source_status
ProxyMpdManifest(w) ==
    /\ req[w].pc = "mpd"
    /\ \E ok \in BOOLEAN, token \in get_mytv_token :
           req' = [req EXCEPT ![w] =
               Finished([req[w] EXCEPT
                             !.source_url = MpdTokenAppended(@, token),
                             !.fetches = @ + 1, !.fetch_ok = ok],
                        IF ok THEN 200 ELSE 404,
                        IF ok THEN "upstream" ELSE "none")]
    /\ UNCHANGED <<sources, tokens, cache, now>>

\* Lines 428 and 561: the cache check of proxy_stream and of proxy_segment
CacheCheck(w) ==
    /\ req[w].pc = "cache_check"
    /\ LET st == FileStat(req[w].cache_path)
       IN  req' = [req EXCEPT ![w].stat = st,
                              ![w].checked = TRUE,
                              ![w].valid = is_cache_valid(st),
                              ![w].pc = AfterCacheCheck(is_cache_valid(st))]
    /\ UNCHANGED <<sources, tokens, cache, now>>

\* generate_from_cache, lines 431-445 and 564-573
ServeCache(w) ==
    /\ req[w].pc = "serve_cache"
    /\ req' = [req EXCEPT ![w] = Finished(req[w], 200, "cache")]
    /\ UNCHANGED <<sources, tokens, cache, now>>

\* Mutant: after a failed fetch the request goes back for a source once more
ProxyStreamFetchFailover(w) ==
    /\ req[w].pc = "fetch" /\ req[w].kind = "channel"
    /\ \E ok \in BOOLEAN, response_time \in ProxyElapsed, body \in Bodies :
           /\ sources' = StatusUpdated(sources, req[w].channel_id,
                                       req[w].source_url, ok,
                                       IF ok THEN response_time ELSE 0)
           /\ LET r == [req[w] EXCEPT !.fetches = @ + 1, !.fetch_ok = ok,
                                       !.updates = @ + 1]
              IN  req' = [req EXCEPT ![w] =
                      IF ok
                      THEN [r EXCEPT !.response_time = response_time,
                                     !.body = body, !.status = 200,
                                     !.pc = "stream"]
                      ELSE IF r.fetches < 2
                      THEN r
                      ELSE Finished(r, 503, "none")]
    /\ UNCHANGED <<tokens, cache, now>>

\* Lines 447-467: the fetch and the outcome recorded for source_url, the URL
\* as it is after the token was appended
ProxyStreamFetch(w) ==
    /\ req[w].pc = "fetch" /\ req[w].kind = "channel"
    /\ \E ok \in BOOLEAN, response_time \in ProxyElapsed, body \in Bodies :
           /\ sources' = StatusUpdated(sources, req[w].channel_id,
                                       req[w].source_url, ok,
                                       IF ok THEN response_time ELSE 0)
           /\ LET r == [req[w] EXCEPT !.fetches = @ + 1, !.fetch_ok = ok,
                                       !.updates = @ + 1]
              IN  req' = [req EXCEPT ![w] =
                      IF ok
                      THEN [r EXCEPT !.response_time = response_time,
                                     !.body = body, !.status = 200,
                                     !.pc = "stream"]
                      ELSE Finished(r, 503, "none")]
    /\ UNCHANGED <<tokens, cache, now>>

\* generate, lines 483-519: the cache file is opened for writing, k chunks
\* are read, written and sent, and the stream ends or the upstream fails;
\* either way an outcome is recorded
ProxyStreamGenerate(w) ==
    /\ req[w].pc = "stream" /\ req[w].kind = "channel"
    /\ \E k \in 0..Len(req[w].body), failed \in BOOLEAN :
           /\ ~failed => k = Len(req[w].body)
           /\ cache' = IF CACHE_ENABLED
                       THEN Written(req[w].cache_path,
                                    SumSeq(SubSeq(req[w].body, 1, k)))
                       ELSE cache
           /\ sources' = StatusUpdated(sources, req[w].channel_id,
                                       req[w].source_url, ~failed,
                                       req[w].response_time)
           /\ req' = [req EXCEPT ![w] =
                  Finished([req[w] EXCEPT !.updates = @ + 1], 200, "upstream")]
    /\ UNCHANGED <<tokens, now>>

-----------------------------------------------------------------------------
(* proxy_segment: GET /proxy/segment/<channel_id>?url=... *)

\* Lines 527-558
ProxySegmentStart(w, channel_id, segment_url) ==
    /\ Free(w)
    /\ IF segment_url = None
       THEN req' = [req EXCEPT ![w] =
                Finished([IdleReq EXCEPT !.kind = "segment",
                                         !.channel_id = channel_id],
                         400, "none")]
       ELSE req' = [req EXCEPT ![w] =
                [IdleReq EXCEPT
                    !.pc = "cache_check",
                    !.kind = "segment",
                    !.channel_id = channel_id,
                    !.selected = segment_url,
                    !.source_url = segment_url,
                    !.route = "segment",
                    !.cache_path =
                        get_cache_path(channel_id, SegmentId(segment_url))]]
    /\ UNCHANGED <<sources, tokens, cache, now>>

\* Lines 575-579
ProxySegmentFetch(w) ==
    /\ req[w].pc = "fetch" /\ req[w].kind = "segment"
    /\ \E ok \in BOOLEAN, body \in Bodies :
           LET r == [req[w] EXCEPT !.fetches = @ + 1, !.fetch_ok = ok]
           IN  req' = [req EXCEPT ![w] =
                   IF ok
                   THEN [r EXCEPT !.body = body, !.status = 200,
                                  !.pc = "stream"]
                   ELSE Finished(r, 503, "none")]
    /\ UNCHANGED <<sources, tokens, cache, now>>

\* generate, lines 591-609: the chunks are collected and the file is written
\* after the last one
ProxySegmentGenerate(w) ==
    /\ req[w].pc = "stream" /\ req[w].kind = "segment"
    /\ \E failed \in BOOLEAN :
           /\ cache' = IF ~failed /\ CACHE_ENABLED /\ SumSeq(req[w].body) > 0
                       THEN Written(req[w].cache_path, SumSeq(req[w].body))
                       ELSE cache
           /\ req' = [req EXCEPT ![w] = Finished(req[w], 200, "upstream")]
    /\ UNCHANGED <<sources, tokens, now>>

-----------------------------------------------------------------------------
(* The proxy: registration, tokens, time and requests *)

NextProxy ==
    \/ \E p \in ProxyCatalog, priority \in ProxyPriorities :
           /\ \/ Matching(sources, p[1], p[2]) # {}
              \/ BagCardinality(sources) < MaxSources
           /\ AddChannelSource(p[1], p[2], priority)
    \/ \E token \in TokenNames, expiry \in TokenExpiry :
           AddMytvToken(token, expiry)
    \/ Tick
    \/ \E w \in Workers, c \in Channels : ProxyStreamStart(w, c)
    \/ \E w \in Workers : ProxyHlsManifest(w)
    \/ \E w \in Workers : ProxyMpdManifest(w)
    \/ \E w \in Workers : CacheCheck(w)
    \/ \E w \in Workers : ServeCache(w)
    \/ \E w \in Workers : ProxyStreamFetch(w)
    \/ \E w \in Workers : ProxyStreamGenerate(w)
    \/ \E w \in Workers, u \in SegmentUrls : ProxySegmentStart(w, "x", u)
    \/ \E w \in Workers : ProxySegmentFetch(w)
    \/ \E w \in Workers : ProxySegmentGenerate(w)

SpecProxy == Init /\ [][NextProxy]_vars

-----------------------------------------------------------------------------
(* Claims about the source registry, checked under Spec *)

ChannelRows(channel_id) ==
    {r \in Rows(sources) : r.channel_id = channel_id}

ActiveRows(channel_id) ==
    {r \in ChannelRows(channel_id) : r.is_active}

Row(T, channel_id, url) ==
    CHOOSE r \in Matching(T, channel_id, url) : TRUE

\* The table without the rows of (channel_id, url)
Others(T, channel_id, url) ==
    [r \in Rows(T) \ Matching(T, channel_id, url) |-> CopiesIn(r, T)]

\* C1: while a channel has an active source, everything get_best_source may
\* return is the URL of an active source whose priority number is the least
\* among the active ones and whose avg_response_time is the least among the
\* active ones of that priority
C1_BestIsActiveMinimum ==
    \A c \in Channels :
        ActiveRows(c) # {} =>
            \A u \in get_best_source(c) :
                \E r \in ActiveRows(c) :
                    /\ r.url = u
                    /\ \A q \in ChannelRows(c) : q.url = u => q.is_active
                    /\ \A q \in ActiveRows(c) :
                        /\ r.priority <= q.priority
                        /\ q.priority = r.priority =>
                               r.avg_response_time[1] * q.avg_response_time[2]
                                   <= q.avg_response_time[1] * r.avg_response_time[2]

\* C1 witness: channel x has an inactive source of priority 1 and an active
\* one of a higher priority number, and get_best_source returns the active one
C1_Witness ==
    \E r, q \in ChannelRows("x") :
        /\ ~r.is_active /\ r.priority = 1
        /\ q.is_active /\ q.priority = 2
        /\ get_best_source("x") = {q.url}

\* C2: with no active source, get_best_source returns the URL of a source of
\* the least priority number, whatever its active flag; it returns None
\* exactly when the channel has no row
C2_FallbackLowestPriority ==
    \A c \in Channels :
        /\ (None \in get_best_source(c)) <=> (ChannelRows(c) = {})
        /\ (ActiveRows(c) = {} /\ ChannelRows(c) # {}) =>
               \A u \in get_best_source(c) :
                   \E r \in ChannelRows(c) :
                       /\ r.url = u
                       /\ \A q \in ChannelRows(c) : r.priority <= q.priority

\* C2 witness: channel x has two sources, both inactive, of different
\* priorities, and get_best_source returns the one of priority 1
C2_Witness ==
    \E r, q \in ChannelRows("x") :
        /\ ~r.is_active /\ ~q.is_active
        /\ r.priority = 1 /\ q.priority = 2
        /\ get_best_source("x") = {r.url}

\* C3: a success update of an existing source sets is_active, adds exactly 1
\* to success_count and makes avg_response_time (avg * n + elapsed) / (n + 1),
\* avg and n being the values before the call
C3_SuccessUpdatesMean ==
    [][\A p \in Catalog, e \in Elapsed :
          (/\ Matching(sources, p[1], p[2]) # {}
           /\ UpdateSourceStatus(p[1], p[2], TRUE, e)) =>
              LET old == Row(sources, p[1], p[2])
                  new == Row(sources', p[1], p[2])
                  n   == old.success_count
              IN  /\ Matching(sources', p[1], p[2]) # {}
                  /\ new.is_active
                  /\ new.success_count = n + 1
                  /\ new.avg_response_time[1] * old.avg_response_time[2] * (n + 1)
                       = new.avg_response_time[2]
                           * (old.avg_response_time[1] * n
                                + e * old.avg_response_time[2])]_vars

\* C3 witness: a source after two successes of 1 s and 2 s, whose mean is 3/2
C3_Witness ==
    \E r \in Rows(sources) :
        /\ r.success_count = 2
        /\ r.avg_response_time = <<3, 2>>
        /\ r.is_active

\* C4: a failure update of an existing source clears is_active, adds exactly
\* 1 to fail_count and leaves its success_count, avg_response_time and
\* priority as they were; a success update leaves fail_count and priority as
\* they were; either leaves every other row of the table as it was
C4_UpdateFrame ==
    [][\A p \in Catalog, ok \in BOOLEAN, e \in Elapsed :
          (/\ Matching(sources, p[1], p[2]) # {}
           /\ UpdateSourceStatus(p[1], p[2], ok, e)) =>
              LET old == Row(sources, p[1], p[2])
                  new == Row(sources', p[1], p[2])
              IN  /\ Matching(sources', p[1], p[2]) # {}
                  /\ Others(sources', p[1], p[2]) = Others(sources, p[1], p[2])
                  /\ new.priority = old.priority
                  /\ new.channel_id = old.channel_id /\ new.url = old.url
                  /\ ok => new.fail_count = old.fail_count
                  /\ ~ok => /\ ~new.is_active
                            /\ new.fail_count = old.fail_count + 1
                            /\ new.success_count = old.success_count
                            /\ new.avg_response_time = old.avg_response_time]_vars

\* C4 witness: a failure has been recorded on one source of channel x (it is
\* inactive, fail_count 1, an earlier success kept) beside another source of
\* the channel that is still as registered
C4_Witness ==
    \E r, q \in ChannelRows("x") :
        /\ r.url # q.url
        /\ ~r.is_active /\ r.fail_count = 1 /\ r.success_count = 1
        /\ q.is_active /\ q.fail_count = 0 /\ q.success_count = 0

\* The state of C5: channel x has exactly two sources, priority 1 inactive
\* and priority 2 active
C5_Scenario(r1, r2) ==
    /\ ChannelRows("x") = {r1, r2}
    /\ r1.priority = 1 /\ ~r1.is_active
    /\ r2.priority = 2 /\ r2.is_active

\* C5: in that state get_best_source(x) returns the URL of the priority-2
\* source, and after a success recorded on the priority-1 source it returns
\* the URL of the priority-1 source
C5_FailoverAndHealing ==
    [][\A r1, r2 \in Rows(sources) :
          C5_Scenario(r1, r2) =>
              /\ get_best_source("x") = {r2.url}
              /\ \A e \in Elapsed :
                     UpdateSourceStatus("x", r1.url, TRUE, e) =>
                         get_best_source("x")' = {r1.url}]_vars

\* C5 witness: the state after the scenario: the priority-1 source of x has
\* one failure and one success on record and is active, the priority-2
\* source is active, and get_best_source returns the priority-1 URL
C5_Witness ==
    \E r1, r2 \in ChannelRows("x") :
        /\ ChannelRows("x") = {r1, r2}
        /\ r1.priority = 1 /\ r1.is_active
        /\ r1.fail_count = 1 /\ r1.success_count = 1
        /\ r2.priority = 2 /\ r2.is_active
        /\ get_best_source("x") = {r1.url}

C7_Unique ==
    \A r \in Rows(sources) :
        /\ CopiesIn(r, sources) = 1
        /\ \A q \in Rows(sources) :
               (q.channel_id = r.channel_id /\ q.url = r.url) => q = r

C7_Registrations ==
    {<<p[1], p[2], priority>> :
        p \in Catalog, priority \in Priorities \cup {DISCOVERY_PRIORITY}}

\* C7: the table holds one row per (channel, URL) pair; registering a pair
\* again yields the state that registering it once yields; registering an
\* existing pair sets its priority and is_active and adds no row
C7_IdempotentUpsert ==
    /\ [](/\ C7_Unique
          /\ \A a \in C7_Registrations :
                 Upsert(Upsert(sources, a[1], a[2], a[3]), a[1], a[2], a[3])
                     = Upsert(sources, a[1], a[2], a[3]))
    /\ [][\A a \in C7_Registrations :
             (/\ Matching(sources, a[1], a[2]) # {}
              /\ \/ AddChannelSource(a[1], a[2], a[3])
                 \/ (a[3] = DISCOVERY_PRIORITY /\ UpdateChannelSources(a[1], a[2]))) =>
                 /\ BagCardinality(sources') = BagCardinality(sources)
                 /\ Others(sources', a[1], a[2]) = Others(sources, a[1], a[2])
                 /\ Matching(sources', a[1], a[2]) # {}
                 /\ Row(sources', a[1], a[2]) =
                        [Row(sources, a[1], a[2]) EXCEPT
                            !.priority = a[3], !.is_active = TRUE]]_vars

\* C7 witness: a source that failed and was registered again: active, with a
\* failure and no success on record
C7_Witness ==
    /\ C7_Unique
    /\ \E r \in Rows(sources) :
           r.is_active /\ r.fail_count = 1 /\ r.success_count = 0

-----------------------------------------------------------------------------
(* Claims about the request handlers, checked under SpecProxy *)

\* C6: whenever a channel request fetches the source get_best_source chose,
\* a failed fetch adds 1 to that source's fail_count and clears is_active and
\* a successful one adds 1 to its success_count, whatever the kind of source
C6_HealthOnEveryFetch ==
    [][\A w \in Workers :
          (/\ req[w].kind = "channel"
           /\ req[w].selected # None
           /\ req'[w].fetches = req[w].fetches + 1) =>
              LET c   == req[w].channel_id
                  u   == req[w].selected
                  old == Row(sources, c, u)
                  new == Row(sources', c, u)
              IN  /\ Matching(sources, c, u) # {}
                  /\ Matching(sources', c, u) # {}
                  /\ IF req'[w].fetch_ok
                     THEN new.success_count = old.success_count + 1
                     ELSE /\ new.fail_count = old.fail_count + 1
                          /\ ~new.is_active]_vars

\* C8: the cache check answers true exactly for a file that exists, is at
\* most 3600 s old and holds at least 1024 bytes, and a request whose check
\* answered false fetches from the upstream and is not served the file
C8_CacheValidity ==
    \A w \in Workers :
        /\ (req[w].checked /\ req[w].pc # "done") =>
               (req[w].valid <=>
                    /\ req[w].stat.exists
                    /\ req[w].stat.age <= 3600
                    /\ req[w].stat.size >= 1024)
        /\ (req[w].checked /\ ~req[w].valid) =>
               /\ req[w].served # "cache"
               /\ req[w].pc \in {"fetch", "stream", "done"}
               /\ req[w].pc = "fetch" => req[w].fetches = 0
               /\ req[w].pc \in {"stream", "done"} => req[w].fetches = 1

\* C8 witness: a request found a file of 1024 bytes or more that was older
\* than the TTL and has fetched from the upstream
C8_Witness ==
    \E w \in Workers :
        /\ req[w].pc = "stream"
        /\ req[w].stat.exists /\ req[w].stat.size >= 1024
        /\ req[w].stat.age > 3600
        /\ ~req[w].valid /\ req[w].fetches = 1

\* C9: an opaque-media or segment request fetches only after its cache check
\* and only when the check failed; a request served from the cache has made
\* no fetch and recorded no outcome, and serving it changes no source row
C9_CacheBeforeFetch ==
    /\ [](\A w \in Workers :
             req[w].route \in {"opaque", "segment"} =>
                 /\ req[w].fetches > 0 => (req[w].checked /\ ~req[w].valid)
                 /\ req[w].pc \in {"fetch", "stream"} => req[w].checked
                 /\ (req[w].pc = "serve_cache" \/ req[w].served = "cache") =>
                        /\ req[w].checked /\ req[w].valid
                        /\ req[w].fetches = 0
                        /\ req[w].updates = 0
                 /\ (req[w].checked /\ req[w].valid /\ req[w].pc = "done") =>
                        req[w].served = "cache")
    /\ [][\A w \in Workers :
             (req[w].pc = "serve_cache" /\ req'[w].pc = "done") =>
                 sources' = sources /\ cache' = cache]_vars

\* C9 witness: a channel request for opaque media was answered from the
\* cache without a fetch
C9_Witness ==
    \E w \in Workers :
        /\ req[w].pc = "done" /\ req[w].route = "opaque"
        /\ req[w].served = "cache" /\ req[w].status = 200
        /\ req[w].fetches = 0 /\ req[w].updates = 0

\* The class the path suffix of a URL puts it in
C10_PathClass(url) ==
    IF EndsWith(UrlPath(url), ".m3u8") THEN "hls"
    ELSE IF EndsWith(UrlPath(url), ".mpd") THEN "mpd"
    ELSE "opaque"

\* C10: a channel request is handled by the HLS rewriter, the DASH rewriter
\* or as opaque media according to the path suffix of the source URL, query
\* string and appended token notwithstanding
C10_DispatchByPathSuffix ==
    \A w \in Workers :
        (req[w].kind = "channel" /\ req[w].selected # None) =>
            req[w].route = C10_PathClass(req[w].selected)

-----------------------------------------------------------------------------
(* Manifest rewriting: proxy_hls_manifest and proxy_mpd_manifest *)

\* A playlist has at most this many lines
MaxLines == 2

\* Manifest sources: a playlist in a directory, and URLs whose query names
\* the manifest (the query holds a "/" and the URL ends in the suffix)
M_HLS  == <<"https://", "h", "/", "dir", "/", "sub", "/", "play", ".m3u8">>
M_HLSQ == <<"https://", "h", "/", "get", "?", "f=", "/", "d", "/", "play", ".m3u8">>
M_MPD  == <<"https://", "h", "/", "dir", "/", "play", ".mpd">>
M_MPDQ == <<"https://", "h", "/", "get", "?", "f=", "/", "d", "/", "play", ".mpd">>
ManifestSources == {M_HLS, M_HLSQ, M_MPD, M_MPDQ, U_MYTV, U_TS}

\* References found in manifests
R_REL  == <<"seg1", ".ts">>
R_ABS  == <<"/", "abs", "/", "seg1", ".ts">>
R_FULL == <<"https://", "other", "/", "seg1", ".ts">>

\* Lines of playlists: a tag, an empty line, a line of white space, the three
\* references, and a reference with white space around it
HlsLines ==
    {<<"#", "EXTINF">>, <<>>, <<" ">>, R_REL, R_ABS, R_FULL,
     <<" ">> \o R_REL \o <<" ">>}

\* str.strip()
RECURSIVE Strip(_)
Strip(s) ==
    IF s = <<>> THEN s
    ELSE IF Head(s) = " " THEN Strip(Tail(s))
    ELSE IF s[Len(s)] = " " THEN Strip(SubSeq(s, 1, Len(s) - 1))
    ELSE s

\* s.startswith('#')
StartsWithHash(s) ==
    Len(s) > 0 /\ s[1] = "#"

\* s.startswith('http')
StartsWithHttp(s) ==
    Len(s) > 0 /\ s[1] \in {"http://", "https://"}

\* s.startswith('/')
StartsWithSlash(s) ==
    Len(s) > 0 /\ s[1] = "/"

\* source_url.rsplit('/', 1)[0] + '/': the split is at the last "/" of the
\* whole URL string (the two of "://" are inside the scheme token; every
\* source here has a "/" after the host)
BaseUrl(source_url) ==
    LET k == LastIndex("/", source_url, Len(source_url))
    IN  IF k = 0 THEN source_url \o <<"/">> ELSE SubSeq(source_url, 1, k)

\* f"{parsed_url.scheme}://{parsed_url.netloc}"
SchemeNetloc(source_url) ==
    SubSeq(source_url, 1, FirstOf({"/", "?", "#"}, source_url, 1) - 1)

\* Lines 313-321 (and 357-365, 381-389): the absolute URL of a reference
FullUrl(source_url, segment_url) ==
    IF ~StartsWithHttp(segment_url)
    THEN IF StartsWithSlash(segment_url)
         THEN SchemeNetloc(source_url) \o segment_url
         ELSE BaseUrl(source_url) \o segment_url
    ELSE segment_url

\* urllib.parse.quote of one token (safe='/')
QuoteToken(tok) ==
    CASE tok = "https://" -> "https%3A//"
      [] tok = "http://"  -> "http%3A//"
      [] tok = "?"        -> "%3F"
      [] tok = "&"        -> "%26"
      [] tok = "f="       -> "f%3D"
      [] tok = "k=v"      -> "k%3Dv"
      [] tok = "token="   -> "token%3D"
      [] tok = " "        -> "%20"
      [] tok = "+"        -> "%2B"
      [] tok = "%20"      -> "%2520"
      [] tok = "%2B"      -> "%252B"
      [] tok = "%2F"      -> "%252F"
      [] OTHER            -> tok

\* urllib.parse.quote(full_url)
quote(s) ==
    [i \in 1..Len(s) |-> QuoteToken(s[i])]

\* f"/proxy/segment/{channel_id}?url={escaped_url}"
ProxyUrl(channel_id, full_url) ==
    <<"/proxy/segment/", channel_id, "?url=">> \o quote(full_url)

\* Lines 305-326: what one line of the playlist appends to processed_lines
HlsLine(channel_id, source_url, line) ==
    IF StartsWithHash(line) THEN <<line>>
    ELSE IF Strip(line) # <<>>
         THEN <<ProxyUrl(channel_id, FullUrl(source_url, Strip(line)))>>
         ELSE <<>>

\* Lines 301-326: processed_lines for the lines of the playlist
RECURSIVE ProcessedLines(_, _, _)
ProcessedLines(channel_id, source_url, lines) ==
    IF lines = <<>> THEN <<>>
    ELSE HlsLine(channel_id, source_url, Head(lines))
         \o ProcessedLines(channel_id, source_url, Tail(lines))

\* The playlists: the sequences of at most MaxLines lines
Playlists ==
    UNION {[1..n -> HlsLines] : n \in 0..MaxLines}

\* A manifest has at most this many elements below its root
MaxElems == 2

\* The values of sourceURL attributes: the three references, and a relative
\* reference spelled like a part of the attribute's name
AttrValues == {R_REL, R_ABS, R_FULL, <<"URL">>}

\* An element: whether it has a sourceURL attribute, and the value
NoAttr == [has |-> FALSE, url |-> <<>>]
Elements == {NoAttr} \cup {[has |-> TRUE, url |-> v] : v \in AttrValues}

\* The manifests: whether ET.fromstring accepts the text, the root element
\* and the elements below it in document order
Documents ==
    [wellformed : BOOLEAN, root : Elements,
     elems : UNION {[1..n -> Elements] : n \in 0..MaxElems}]

\* The text of an attribute: sourceURL="value"
AttrText(value) ==
    <<"source", "URL", "=\"">> \o value \o <<"\"">>

\* str.replace(old, new) for a non-empty old
RECURSIVE ReplaceAll(_, _, _)
ReplaceAll(s, old, new) ==
    IF Len(s) < Len(old) THEN s
    ELSE IF SubSeq(s, 1, Len(old)) = old
         THEN new \o ReplaceAll(SubSeq(s, Len(old) + 1, Len(s)), old, new)
         ELSE <<Head(s)>> \o ReplaceAll(Tail(s), old, new)

\* Lines 354-370: an element found by root.findall(".//*[@sourceURL]") gets
\* the proxy URL; serialised by ET.tostring
XmlRewritten(channel_id, source_url, e) ==
    IF e.has
    THEN AttrText(ProxyUrl(channel_id, FullUrl(source_url, e.url)))
    ELSE <<>>

\* An element findall does not select: serialised as it was
XmlKept(e) ==
    IF e.has THEN AttrText(e.url) ELSE <<>>

\* rewrite_url, lines 378-394: one match of sourceURL="([^"]+)"
rewrite_url(channel_id, source_url, e) ==
    IF e.has
    THEN LET segment_url == Strip(e.url)
             proxy_url == ProxyUrl(channel_id, FullUrl(source_url, segment_url))
         IN  ReplaceAll(AttrText(e.url), segment_url, proxy_url)
    ELSE <<>>

\* Lines 351-399: the attributes of the processed manifest, the root's first.
\* ".//*" selects the elements below the root, never the root itself
ProcessedMpd(channel_id, source_url, doc) ==
    IF doc.wellformed
    THEN <<XmlKept(doc.root)>> \o
         [i \in 1..Len(doc.elems) |->
             XmlRewritten(channel_id, source_url, doc.elems[i])]
    ELSE <<rewrite_url(channel_id, source_url, doc.root)>> \o
         [i \in 1..Len(doc.elems) |->
             rewrite_url(channel_id, source_url, doc.elems[i])]

\* The sources registered in SpecManifest
ManifestCatalog == {<<"x", u>> : u \in ManifestSources}

\* The request of a manifest handler that has returned: what it fetched from,
\* what it read and what it answered
ManifestDone(r, source_url, status, content, out) ==
    [pc |-> "done", kind |-> r.kind, channel_id |-> r.channel_id,
     route |-> r.route, source_url |-> source_url, status |-> status,
     content |-> content, out |-> out]

\* proxy_stream, lines 407-424, for a request that ends with 404 or in one of
\* the manifest handlers
ManifestRequest(w, channel_id) ==
    /\ ProxyStreamStart(w, channel_id)
    /\ req'[w].route # "opaque"

\* proxy_hls_manifest, lines 291-334
HlsManifest(w) ==
    /\ req[w].pc = "hls"
    /\ \E ok \in BOOLEAN, lines \in Playlists :
           req' = [req EXCEPT ![w] =
               IF ok
               THEN ManifestDone(req[w], req[w].source_url, 200, lines,
                        ProcessedLines(req[w].channel_id, req[w].source_url,
                                       lines))
               ELSE ManifestDone(req[w], req[w].source_url, 404, <<>>, <<>>)]
    /\ UNCHANGED <<sources, tokens, cache, now>>

\* proxy_mpd_manifest, lines 336-405
MpdManifest(w) ==
    /\ req[w].pc = "mpd"
    /\ \E ok \in BOOLEAN, token \in get_mytv_token, doc \in Documents :
           LET source_url == MpdTokenAppended(req[w].source_url, token)
           IN  req' = [req EXCEPT ![w] =
                   IF ok
                   THEN ManifestDone(req[w], source_url, 200, doc,
                            ProcessedMpd(req[w].channel_id, source_url, doc))
                   ELSE ManifestDone(req[w], source_url, 404, <<>>, <<>>)]
    /\ UNCHANGED <<sources, tokens, cache, now>>

NextManifest ==
    \/ \E p \in ManifestCatalog, priority \in ProxyPriorities :
           /\ \/ Matching(sources, p[1], p[2]) # {}
              \/ BagCardinality(sources) < MaxSources
           /\ AddChannelSource(p[1], p[2], priority)
    \/ \E token \in TokenNames, expiry \in TokenExpiry :
           AddMytvToken(token, expiry)
    \/ \E w \in Workers, c \in Channels : ManifestRequest(w, c)
    \/ \E w \in Workers : HlsManifest(w)
    \/ \E w \in Workers : MpdManifest(w)

SpecManifest == Init /\ [][NextManifest]_vars

-----------------------------------------------------------------------------
(* Claims about manifest rewriting, checked under SpecManifest *)

\* C11: in the answer of proxy_hls_manifest every line that neither starts
\* with # nor is blank has become /proxy/segment/{channel}?url={quoted
\* absolute URL}, and the # lines and the blank lines stand unchanged at
\* their places: the answer has as many lines as the playlist
C11_HlsLinesRewritten ==
    \A w \in Workers :
        (req[w].pc = "done" /\ req[w].route = "hls" /\ req[w].status = 200) =>
            LET lines == req[w].content
                out   == req[w].out
            IN  /\ Len(out) = Len(lines)
                /\ \A i \in 1..Len(lines) :
                       IF StartsWithHash(lines[i]) \/ Strip(lines[i]) = <<>>
                       THEN out[i] = lines[i]
                       ELSE /\ Len(out[i]) > 3
                            /\ SubSeq(out[i], 1, 3) =
                                   <<"/proxy/segment/", req[w].channel_id, "?url=">>
                            /\ out[i][4] \in {"https%3A//", "http%3A//"}

\* The reference resolved as the claim says: kept when it has a scheme,
\* against scheme and host when it starts with "/", otherwise against the
\* directory of the source URL's path
C12_Resolved(source_url, ref) ==
    LET path == UrlPath(source_url)
        dir  == SubSeq(path, 1, LastIndex("/", path, Len(path)))
    IN  IF StartsWithHttp(ref) THEN ref
        ELSE IF StartsWithSlash(ref) THEN SchemeNetloc(source_url) \o ref
        ELSE SchemeNetloc(source_url) \o dir \o ref

\* C12: every reference a manifest handler rewrites is resolved against the
\* source URL by these rules, also when the source URL has a query with a
\* "/" in it
C12_SubUrlResolution ==
    \A w \in Workers :
        (req[w].pc = "done" /\ req[w].status = 200) =>
            /\ req[w].route = "hls" =>
                   LET IsRef(l) == ~StartsWithHash(l) /\ Strip(l) # <<>>
                       IsUrl(l) == ~StartsWithHash(l)
                       refs == SelectSeq(req[w].content, IsRef)
                       urls == SelectSeq(req[w].out, IsUrl)
                   IN  /\ Len(urls) = Len(refs)
                       /\ \A i \in 1..Len(refs) :
                              urls[i] = ProxyUrl(req[w].channel_id,
                                  C12_Resolved(req[w].source_url, Strip(refs[i])))
            /\ (req[w].route = "mpd" /\ req[w].content.wellformed) =>
                   \A i \in 1..Len(req[w].content.elems) :
                       req[w].content.elems[i].has =>
                           req[w].out[i + 1] =
                               AttrText(ProxyUrl(req[w].channel_id,
                                   C12_Resolved(req[w].source_url,
                                                req[w].content.elems[i].url)))

\* C13: the answer of proxy_mpd_manifest has a sourceURL attribute exactly
\* where the manifest has one, the root element included, and each value is a
\* proxy segment URL; on the textual path nothing but the value is changed
C13_SourceUrlsProxied ==
    \A w \in Workers :
        (req[w].pc = "done" /\ req[w].route = "mpd" /\ req[w].status = 200) =>
            LET all == <<req[w].content.root>> \o req[w].content.elems
                out == req[w].out
            IN  /\ Len(out) = Len(all)
                /\ \A i \in 1..Len(all) :
                       IF all[i].has
                       THEN /\ Len(out[i]) > 7
                            /\ SubSeq(out[i], 1, 6) =
                                   <<"source", "URL", "=\"", "/proxy/segment/",
                                     req[w].channel_id, "?url=">>
                            /\ out[i][Len(out[i])] = "\""
                       ELSE out[i] = <<>>

-----------------------------------------------------------------------------
(* fetch_with_retry *)

\* Calls are made with max_retries from 0 up to this
MaxRetryArg == 3

\* fetch_with_retry(..., max_retries=3, ...)
DEFAULT_MAX_RETRIES == 3

RetryArgs == 0..MaxRetryArg \cup {DEFAULT_MAX_RETRIES}

\* A URL urlparse rejects: a "[" in the host without its "]"
U_BAD == <<"http://", "[", "h", "/", "live", ".ts">>

\* The URLs fetch_with_retry is called with
FetchUrls == {U_TS, U_BAD}

\* How one requests.get ends: a response with its final status (redirects
\* are followed), or an exception (timeout, connection error, ...)
Outcomes ==
    {[raised |-> FALSE, status |-> 200], [raised |-> FALSE, status |-> 404],
     [raised |-> FALSE, status |-> 503], [raised |-> TRUE, status |-> 0]}

\* urlparse(url) returns: urlsplit raises ValueError("Invalid IPv6 URL")
\* when only one of "[" and "]" is in the netloc
UrlParses(url) ==
    LET netloc == SubSeq(url, 2, FirstOf({"/", "?", "#"}, url, 1) - 1)
    IN  Contains("[", netloc) <=> Contains("]", netloc)

\* What the call has come to: still running, returned a response, returned
\* None, or left with an exception
Running == [kind |-> "running", status |-> 0, attempt |-> 0]
ReturnedNone == [kind |-> "none", status |-> 0, attempt |-> 0]
Escaped == [kind |-> "raise", status |-> 0, attempt |-> 0]

\* The frame of a call of fetch_with_retry: attempt is the loop variable,
\* history the outcomes of the requests.get calls made so far
FetchFrame(url, max_retries) ==
    [pc |-> "loop", kind |-> "fetch", url |-> url,
     max_retries |-> max_retries, attempt |-> 0, inflight |-> 0,
     history |-> <<>>, result |-> Running]

\* Lines 243-267: the call and the default headers, built before the loop
\* and outside its try
FetchCall(w, url, max_retries) ==
    /\ Free(w)
    /\ req' = [req EXCEPT ![w] =
           IF UrlParses(url)
           THEN FetchFrame(url, max_retries)
           ELSE [FetchFrame(url, max_retries) EXCEPT !.pc = "done",
                                                     !.result = Escaped]]
    /\ UNCHANGED <<sources, tokens, cache, now>>

\* Mutant: one attempt more than max_retries
AttemptsRemainOneMore(attempt, max_retries) ==
    attempt <= max_retries

\* for attempt in range(max_retries): whether the loop has a next round
AttemptsRemain(attempt, max_retries) ==
    attempt < max_retries

\* Lines 269-271 and 289: the loop head sends the next request, or the loop
\* is over and None is returned
FetchSend(w) ==
    /\ req[w].pc = "loop"
    /\ req' = [req EXCEPT ![w] =
           IF AttemptsRemain(req[w].attempt, req[w].max_retries)
           THEN [req[w] EXCEPT !.pc = "get", !.inflight = @ + 1]
           ELSE [req[w] EXCEPT !.pc = "done", !.result = ReturnedNone]]
    /\ UNCHANGED <<sources, tokens, cache, now>>

\* if response.status_code == 200, for a requests.get that did not raise
IsSuccess(outcome) ==
    ~outcome.raised /\ outcome.status = 200

\* Lines 271-286: requests.get ends; a 200 response is returned, anything
\* else is logged and followed by time.sleep(1)
FetchReceive(w) ==
    /\ req[w].pc = "get"
    /\ \E outcome \in Outcomes :
           LET r == [req[w] EXCEPT !.history = Append(@, outcome),
                                   !.inflight = @ - 1]
           IN  req' = [req EXCEPT ![w] =
                   IF IsSuccess(outcome)
                   THEN [r EXCEPT !.pc = "done",
                                  !.result = [kind |-> "response",
                                              status |-> outcome.status,
                                              attempt |-> Len(r.history)]]
                   ELSE [r EXCEPT !.pc = "sleep"]]
    /\ UNCHANGED <<sources, tokens, cache, now>>

\* time.sleep(1) returns and the loop goes to its next round
FetchSleep(w) ==
    /\ req[w].pc = "sleep"
    /\ req' = [req EXCEPT ![w].pc = "loop", ![w].attempt = @ + 1]
    /\ UNCHANGED <<sources, tokens, cache, now>>

FetchStep ==
    \E w \in Workers : FetchSend(w) \/ FetchReceive(w) \/ FetchSleep(w)

NextFetch ==
    \/ \E w \in Workers, url \in FetchUrls, max_retries \in RetryArgs :
           FetchCall(w, url, max_retries)
    \/ \E w \in Workers : FetchSend(w)
    \/ \E w \in Workers : FetchReceive(w)
    \/ \E w \in Workers : FetchSleep(w)

\* Every requests.get ends (it has a timeout) and the worker thread keeps
\* running: a call that can take a step takes it
SpecFetch == Init /\ [][NextFetch]_vars /\ WF_vars(FetchStep)

-----------------------------------------------------------------------------
(* Claims about fetch_with_retry, checked under SpecFetch *)

\* The attempt ended with HTTP 200
C14_Ok(outcome) ==
    ~outcome.raised /\ outcome.status = 200

\* C14: the attempts of a call are made one after the other, there are at
\* most max_retries of them, none follows an attempt that returned 200, an
\* attempt that ended otherwise is followed by the next one while attempts
\* remain, and every call comes to its end
C14_BoundedSequentialRetry ==
    /\ [](\A w \in Workers :
             req[w].kind = "fetch" =>
                 /\ req[w].inflight \in {0, 1}
                 /\ Len(req[w].history) + req[w].inflight <= req[w].max_retries
                 /\ \A i \in 1..(Len(req[w].history) - 1) :
                        ~C14_Ok(req[w].history[i])
                 /\ (req[w].history # <<>>
                     /\ C14_Ok(req[w].history[Len(req[w].history)])) =>
                        req[w].pc = "done" /\ req[w].inflight = 0)
    /\ [][\A w \in Workers :
             (req[w].kind = "fetch" /\ req[w].pc # "done") =>
                 /\ Len(req'[w].history) + req'[w].inflight
                        \in {Len(req[w].history) + req[w].inflight,
                             Len(req[w].history) + req[w].inflight + 1}
                 /\ (req[w].pc \in {"sleep", "loop"}
                     /\ req[w].history # <<>>
                     /\ Len(req[w].history) < req[w].max_retries
                     /\ req'[w] # req[w]) =>
                        \/ req'[w].pc = "loop" /\ req[w].pc = "sleep"
                        \/ req'[w].pc = "get" /\ req'[w].inflight = 1]_vars
    /\ \A w \in Workers :
           (req[w].pc \in {"loop", "get", "sleep"}) ~> (req[w].pc = "done")

\* C14 witness: a call with the default max_retries has stopped at its
\* second attempt, the first one to return 200
C14_Witness ==
    \E w \in Workers :
        /\ req[w].kind = "fetch" /\ req[w].pc = "done"
        /\ req[w].max_retries = 3
        /\ Len(req[w].history) = 2
        /\ req[w].history[1].raised
        /\ C14_Ok(req[w].history[2])

\* C15: a call returns a response exactly when one of its attempts returned
\* 200, and that response is the one returned; when every attempt ended
\* otherwise it returns None; no call ends with an exception
C15_ResponseIffOk ==
    \A w \in Workers :
        (req[w].kind = "fetch" /\ req[w].pc = "done") =>
            LET ok == {i \in 1..Len(req[w].history) :
                           C14_Ok(req[w].history[i])}
            IN  /\ req[w].result.kind # "raise"
                /\ req[w].result.kind = "response" <=> ok # {}
                /\ req[w].result.kind = "response" =>
                       /\ req[w].result.status = 200
                       /\ req[w].result.attempt \in ok
                /\ ok = {} => req[w].result.kind = "none"

-----------------------------------------------------------------------------
(* The tee of proxy_stream: generate(), chunk by chunk *)

\* The sources registered in SpecTee: plain opaque media, and a MyTV .mpd
\* source, which is streamed as opaque media once a token is stored
TeeCatalog == {<<"x", U_TS>>, <<"x", U_MYTV>>}

\* except Exception: catches every exception but those that derive from
\* BaseException only; GeneratorExit, thrown into the generator at its yield
\* when the response is closed, is one of these
CaughtEvenGeneratorExit(exc) ==
    TRUE

CaughtByExceptException(exc) ==
    exc # "GeneratorExit"

\* The cache file of the tee as it is on disk: its bytes so far, and whether
\* it is being written, holds the whole upstream body, or only a prefix
TeeFile(path, size, state) ==
    [q \in DOMAIN cache \cup {path} |->
        IF q = path THEN [mtime |-> now, size |-> size, state |-> state]
        ELSE cache[q]]

\* The frame of generate(): i chunks read, sent chunks yielded, cache_file
\* open or None, and what went wrong so far
TeeFrame(r, cache_file) ==
    [pc |-> "read", kind |-> r.kind, channel_id |-> r.channel_id,
     route |-> r.route, selected |-> r.selected, source_url |-> r.source_url,
     cache_path |-> r.cache_path, response_time |-> r.response_time,
     body |-> r.body, fetches |-> r.fetches, updates |-> r.updates,
     i |-> 0, sent |-> 0, cache_file |-> cache_file,
     cache_error |-> ~cache_file, raised |-> "none"]

\* The generator is exhausted or closed: what the request did
TeeDone(r, raised, updates) ==
    [pc |-> "done", kind |-> r.kind, channel_id |-> r.channel_id,
     route |-> r.route, chunks |-> Len(r.body), fetches |-> r.fetches,
     updates |-> updates, i |-> r.i, sent |-> r.sent,
     cache_error |-> r.cache_error, raised |-> raised]

\* finally: if cache_file: cache_file.close(). The file stays as written
TeeClosed(r) ==
    IF r.cache_file
    THEN TeeFile(r.cache_path, cache[r.cache_path].size,
                 IF cache[r.cache_path].size = SumSeq(r.body)
                    /\ r.raised # "upstream"
                 THEN "whole" ELSE "truncated")
    ELSE cache

\* Mutant: the end of the loop records nothing
TeeLeaveNoSuccessAtEnd(w, r, exc) ==
    /\ sources' =
           IF exc # "none" /\ CaughtByExceptException(exc)
           THEN StatusUpdated(sources, r.channel_id, r.source_url, FALSE, 0)
           ELSE sources
    /\ cache' = TeeClosed([r EXCEPT !.raised = exc])
    /\ req' = [req EXCEPT ![w] =
           TeeDone(r, exc,
                   IF exc # "none" /\ CaughtByExceptException(exc)
                   THEN r.updates + 1 ELSE r.updates)]

\* Lines 510-519: the try body was left by exc ("none": the loop ended).
\* The end of the loop records a success, an exception caught by the except
\* clause a failure, and finally closes the file
TeeLeave(w, r, exc) ==
    /\ sources' =
           IF exc = "none"
           THEN StatusUpdated(sources, r.channel_id, r.source_url, TRUE,
                              r.response_time)
           ELSE IF CaughtByExceptException(exc)
                THEN StatusUpdated(sources, r.channel_id, r.source_url,
                                   FALSE, 0)
                ELSE sources
    /\ cache' = TeeClosed([r EXCEPT !.raised = exc])
    /\ req' = [req EXCEPT ![w] =
           TeeDone(r, exc,
                   IF exc = "none" \/ CaughtByExceptException(exc)
                   THEN r.updates + 1 ELSE r.updates)]

\* Lines 483-491: the generator starts; the cache file is opened for writing
\* (created or emptied), or the open fails and is logged
TeeOpen(w) ==
    /\ req[w].pc = "stream" /\ req[w].kind = "channel"
    /\ \E opened \in BOOLEAN :
           /\ req' = [req EXCEPT ![w] =
                  TeeFrame(req[w], CACHE_ENABLED /\ opened)]
           /\ cache' = IF CACHE_ENABLED /\ opened
                       THEN TeeFile(req[w].cache_path, 0, "writing")
                       ELSE cache
    /\ UNCHANGED <<sources, tokens, now>>

\* Line 494: response.iter_content gives the next chunk, ends, or raises
TeeRead(w) ==
    /\ req[w].pc = "read"
    /\ \E failed \in BOOLEAN :
           IF failed
           THEN TeeLeave(w, req[w], "upstream")
           ELSE IF req[w].i = Len(req[w].body)
                THEN TeeLeave(w, req[w], "none")
                ELSE /\ req' = [req EXCEPT
                            ![w].i = @ + 1,
                            ![w].pc = IF req[w].cache_file
                                      THEN "write" ELSE "yield"]
                     /\ UNCHANGED <<sources, cache>>
    /\ UNCHANGED <<tokens, now>>

\* Lines 499-507: the chunk is written to the cache file; a failed write is
\* logged and the file closed and given up, and a close that raises inside
\* that handler leaves the try body
TeeWrite(w) ==
    /\ req[w].pc = "write"
    /\ \E written \in BOOLEAN, closed \in BOOLEAN :
           LET r == req[w]
               size == cache[r.cache_path].size
           IN  IF written
               THEN /\ cache' = TeeFile(r.cache_path, size + r.body[r.i],
                                        "writing")
                    /\ req' = [req EXCEPT ![w].pc = "yield"]
                    /\ UNCHANGED sources
               ELSE IF closed
               THEN /\ cache' = TeeFile(r.cache_path, size, "truncated")
                    /\ req' = [req EXCEPT ![w].pc = "yield",
                                          ![w].cache_file = FALSE,
                                          ![w].cache_error = TRUE]
                    /\ UNCHANGED sources
               ELSE TeeLeave(w, [r EXCEPT !.cache_error = TRUE], "close")
    /\ UNCHANGED <<tokens, now>>

\* Line 509: yield chunk. The client takes the chunk, or it has gone away and
\* the server closes the generator, which raises GeneratorExit at the yield
TeeYield(w) ==
    /\ req[w].pc = "yield"
    /\ \E gone \in BOOLEAN :
           IF gone
           THEN TeeLeave(w, req[w], "GeneratorExit")
           ELSE /\ req' = [req EXCEPT ![w].sent = @ + 1, ![w].pc = "read"]
                /\ UNCHANGED <<sources, cache>>
    /\ UNCHANGED <<tokens, now>>

NextTee ==
    \/ \E p \in TeeCatalog, priority \in ProxyPriorities :
           /\ \/ Matching(sources, p[1], p[2]) # {}
              \/ BagCardinality(sources) < MaxSources
           /\ AddChannelSource(p[1], p[2], priority)
    \/ \E token \in TokenNames, expiry \in TokenExpiry :
           AddMytvToken(token, expiry)
    \/ \E w \in Workers, c \in Channels : ProxyStreamStart(w, c)
    \/ \E w \in Workers : ProxyMpdManifest(w)
    \/ \E w \in Workers : CacheCheck(w)
    \/ \E w \in Workers : ServeCache(w)
    \/ \E w \in Workers : ProxyStreamFetch(w)
    \/ \E w \in Workers : TeeOpen(w)
    \/ \E w \in Workers : TeeRead(w)
    \/ \E w \in Workers : TeeWrite(w)
    \/ \E w \in Workers : TeeYield(w)

SpecTee == Init /\ [][NextTee]_vars

-----------------------------------------------------------------------------
(* Claims about the tee, checked under SpecTee *)

\* C16: an error of the cache file (open, write, or close after a failed
\* write) does not touch the delivery: every chunk read is yielded, the
\* stream runs to the end of the upstream body unless the upstream or the
\* client ends it, and no failure is recorded for the source because of it
C16_CacheErrorsDoNotInterrupt ==
    /\ [](\A w \in Workers :
             ("raised" \in DOMAIN req[w] /\ req[w].pc = "done"
              /\ req[w].cache_error
              /\ req[w].raised \notin {"upstream", "GeneratorExit"}) =>
                 /\ req[w].raised = "none"
                 /\ req[w].i = req[w].chunks
                 /\ req[w].sent = req[w].i)
    /\ [][\A w \in Workers :
             (req[w].pc = "write" /\ req'[w].cache_error) =>
                 /\ req'[w].pc = "yield"
                 /\ \A r \in Rows(sources') :
                        \E q \in Rows(sources) :
                            /\ q.channel_id = r.channel_id /\ q.url = r.url
                            /\ q.fail_count = r.fail_count
                            /\ q.is_active = r.is_active]_vars

\* C17: when the upstream fails in mid-stream the source the request chose
\* gets one more fail_count and is no longer active, and the request ends
\* without another fetch
C17_ReadErrorRecorded ==
    [][\A w \in Workers :
          (req[w].pc = "read" /\ req'[w].pc = "done"
           /\ req'[w].raised = "upstream") =>
              LET c == req[w].channel_id
                  u == req[w].selected
              IN  /\ Matching(sources, c, u) # {}
                  /\ Matching(sources', c, u) # {}
                  /\ Row(sources', c, u).fail_count =
                         Row(sources, c, u).fail_count + 1
                  /\ ~Row(sources', c, u).is_active
                  /\ req'[w].fetches = req[w].fetches
                  /\ req'[w].sent = req[w].sent]_vars

\* C18: a cache file that a tee which ended early left with only a prefix of
\* the upstream body is not valid for is_cache_valid
C18_NoTruncatedValidEntry ==
    \A path \in DOMAIN cache :
        cache[path].state = "truncated" => ~is_cache_valid(FileStat(path))

\* C19: when the client goes away in mid-stream the generator stops at its
\* yield, nothing more is sent, and no row of channel_sources changes: the
\* source keeps its fail_count and its active flag
C19_DisconnectNotAFailure ==
    /\ [](\A w \in Workers :
             ("raised" \in DOMAIN req[w] /\ req[w].raised = "GeneratorExit") =>
                 /\ req[w].pc = "done"
                 /\ req[w].sent < req[w].i
                 /\ req[w].fetches = 1
                 /\ req[w].updates = 1)
    /\ [][\A w \in Workers :
             (req[w].pc = "yield" /\ req'[w].pc = "done") =>
                 /\ req'[w].raised = "GeneratorExit"
                 /\ req'[w].sent = req[w].sent
                 /\ sources' = sources]_vars

\* C19 witness: the client took the first chunk of plain opaque media and
\* went away at the second; the source is still active and without failure
C19_Witness ==
    \E w \in Workers :
        /\ "raised" \in DOMAIN req[w] /\ req[w].pc = "done"
        /\ req[w].raised = "GeneratorExit"
        /\ req[w].sent = 1 /\ req[w].i = 2
        /\ Matching(sources, "x", U_TS) # {}
        /\ Row(sources, "x", U_TS).fail_count = 0
        /\ Row(sources, "x", U_TS).is_active

-----------------------------------------------------------------------------
(* A further claim about the request handlers, checked under SpecProxy *)

\* C20: when a stream served from the upstream completes or fails, in
\* proxy_stream or in proxy_segment, the outcome is recorded in the registry:
\* a source of the request's channel gets one more success or one more
\* failure
C20_StreamEndUpdatesHealth ==
    [][\A w \in Workers :
          (/\ req[w].pc = "stream" /\ req'[w].pc = "done"
           /\ \E r \in Rows(sources) : r.channel_id = req[w].channel_id) =>
              \E r \in Rows(sources), q \in Rows(sources') :
                  /\ r.channel_id = req[w].channel_id
                  /\ q.channel_id = r.channel_id /\ q.url = r.url
                  /\ \/ q.success_count = r.success_count + 1
                     \/ q.fail_count = r.fail_count + 1]_vars

-----------------------------------------------------------------------------
(* What is sent upstream: tokens and headers at the four fetch sites *)

\* Sources and segment URLs of MyTV (the origin that requires a token) and
\* of CCTV (the origin fetch_with_retry has special headers for)
U_MYTV_TS   == <<"http://", "mytv", "/", "live", ".ts">>
U_MYTV_TOK  == <<"http://", "mytv", "/", "b", ".mpd", "?", "token=", "T0">>
U_CCTV      == <<"http://", "cctv", "/", "live", ".ts">>
S_MYTV      == <<"http://", "mytv", "/", "v1", "/", "seg", "-", "1", ".ts">>
S_CCTV      == <<"http://", "cctv", "/", "v1", "/", "seg", "-", "1", ".ts">>
UpstreamCatalog ==
    {<<"x", u>> : u \in {U_TS, U_HLS, U_MYTV, U_MYTV_TS, U_MYTV_TOK, U_CCTV}}
UpstreamSegments == {S1, S_MYTV, S_CCTV}

\* Tokens stored in SpecUpstream and the expiries given to them
UpstreamTokenNames == {"T1", "T2"}
UpstreamExpiries == {CACHE_TTL, CACHE_TTL + 1, CACHE_TTL + 2}

USER_AGENT == <<"Mozilla/5.0 Chrome/91">>
CCTV_USER_AGENT == <<"Mozilla/5.0 Chrome/134">>

\* No headers: None, or an empty dict (both falsy)
NoHeaders == <<>>

\* The header set of lines 255-264 (and of proxy_segment, lines 541-550)
CctvHeaders ==
    [name \in {"User-Agent", "Accept", "Accept-Language", "Origin",
               "Referer", "Sec-Fetch-Dest", "Sec-Fetch-Mode",
               "Sec-Fetch-Site"} |->
        CASE name = "User-Agent"      -> CCTV_USER_AGENT
          [] name = "Accept"          -> <<"*/*">>
          [] name = "Accept-Language" -> <<"en,zh-CN;q=0.9,zh;q=0.8">>
          [] name = "Origin"          -> <<"https://tv.cctv.com">>
          [] name = "Referer"         -> <<"https://tv.cctv.com/">>
          [] name = "Sec-Fetch-Dest"  -> <<"empty">>
          [] name = "Sec-Fetch-Mode"  -> <<"cors">>
          [] name = "Sec-Fetch-Site"  -> <<"cross-site">>]

\* fetch_with_retry, lines 245-264: default_headers for the URL
DefaultHeaders(url) ==
    IF \/ InLower("cctv", url) \/ InLower("volcfcdn.com", url)
       \/ InLower("myqcloud.com", url) \/ InLower("myalicdn.com", url)
    THEN CctvHeaders
    ELSE [name \in {"User-Agent", "Referer"} |->
             IF name = "User-Agent" THEN USER_AGENT
             ELSE SchemeNetloc(url) \o <<"/">>]

\* Mutant: the defaults are laid over the caller's headers
HeadersUpdatedDefaultsWin(default_headers, headers) ==
    [name \in DOMAIN default_headers \cup DOMAIN headers |->
        IF name \in DOMAIN default_headers THEN default_headers[name]
        ELSE headers[name]]

\* Lines 266-267: if headers: default_headers.update(headers)
HeadersUpdated(default_headers, headers) ==
    IF headers # NoHeaders
    THEN [name \in DOMAIN default_headers \cup DOMAIN headers |->
             IF name \in DOMAIN headers THEN headers[name]
             ELSE default_headers[name]]
    ELSE default_headers

\* The request requests.get sends: fetch_with_retry(url, headers=headers)
Sent(url, headers) ==
    [url |-> url, caller |-> headers,
     headers |-> HeadersUpdated(DefaultHeaders(url), headers)]

\* proxy_stream, lines 447-454: custom_headers
StreamHeaders(source_url, token) ==
    IF IsMytv(source_url) /\ token # ""
    THEN [name \in {"User-Agent", "Authorization"} |->
             IF name = "User-Agent" THEN USER_AGENT
             ELSE <<"Bearer ", token>>]
    ELSE [name \in {"User-Agent"} |-> USER_AGENT]

\* proxy_segment, lines 535-550: custom_headers
SegmentHeaders(segment_url) ==
    IF \/ InLower("cctv", segment_url) \/ InLower("volcfcdn.com", segment_url)
       \/ InLower("myqcloud.com", segment_url)
       \/ InLower("liveplay.myqcloud.com", segment_url)
    THEN CctvHeaders
    ELSE NoHeaders

\* The request is over: the URL the client's request resolved to, the token
\* the store would give at the time of the fetch, and what was sent
UpstreamDone(r, live, sent) ==
    [pc |-> "done", kind |-> r.kind, channel_id |-> r.channel_id,
     route |-> r.route, origin |-> r.selected, live |-> live, sent |-> sent]

\* The fetch of each handler, for a request that has reached it:
\* proxy_hls_manifest line 293, proxy_mpd_manifest lines 339-344,
\* proxy_stream lines 447-458, proxy_segment line 576
UpstreamFetch(w) ==
    /\ req[w].pc \in {"hls", "mpd", "fetch"}
    /\ \E token \in get_mytv_token :
           LET r == req[w]
               sent ==
                   CASE r.pc = "hls" -> Sent(r.source_url, NoHeaders)
                     [] r.pc = "mpd" ->
                            Sent(MpdTokenAppended(r.source_url, token),
                                 NoHeaders)
                     [] r.pc = "fetch" /\ r.kind = "channel" ->
                            Sent(r.source_url,
                                 StreamHeaders(r.source_url, token))
                     [] OTHER ->
                            Sent(r.source_url, SegmentHeaders(r.source_url))
           IN  req' = [req EXCEPT ![w] = UpstreamDone(r, token, sent)]
    /\ UNCHANGED <<sources, tokens, cache, now>>

\* A call of get_mytv_token() and what it returned
GetMytvToken(w) ==
    /\ Free(w)
    /\ \E token \in get_mytv_token :
           req' = [req EXCEPT ![w] =
               [pc |-> "done", kind |-> "token", result |-> token]]
    /\ UNCHANGED <<sources, tokens, cache, now>>

NextUpstream ==
    \/ \E p \in UpstreamCatalog, priority \in ProxyPriorities :
           /\ \/ Matching(sources, p[1], p[2]) # {}
              \/ BagCardinality(sources) < MaxSources
           /\ AddChannelSource(p[1], p[2], priority)
    \/ \E token \in UpstreamTokenNames, expiry \in UpstreamExpiries :
           AddMytvToken(token, expiry)
    \/ Tick
    \/ \E w \in Workers : GetMytvToken(w)
    \/ \E w \in Workers, c \in Channels : ProxyStreamStart(w, c)
    \/ \E w \in Workers, u \in UpstreamSegments : ProxySegmentStart(w, "x", u)
    \/ \E w \in Workers : CacheCheck(w)
    \/ \E w \in Workers : UpstreamFetch(w)

SpecUpstream == Init /\ [][NextUpstream]_vars

-----------------------------------------------------------------------------
(* Claims about tokens and headers (SpecUpstream) *)

\* The requests that have fetched, with what they sent
UpstreamFrames ==
    {w \in Workers : req[w].pc = "done" /\ "sent" \in DOMAIN req[w]}

TokenParameters(url) == Cardinality({i \in 1..Len(url) : url[i] = "token="})

\* C21: for every URL of a requires-token origin (MyTV), whether a manifest
\* or a segment or other media is fetched, when the store has a token to
\* give the fetched URL carries exactly one token query parameter and the
\* request carries the header Authorization: Bearer <token>.
C21_TokenAndBearerOnEveryFetch ==
    \A w \in UpstreamFrames :
        LET r == req[w] IN
        IsMytv(r.origin) /\ r.live # "" =>
            /\ TokenParameters(r.sent.url) = 1
            /\ "Authorization" \in DOMAIN r.sent.headers
            /\ r.sent.headers["Authorization"] = <<"Bearer ", r.live>>

\* C22: a call of get_mytv_token returns, among the stored tokens whose
\* expiry is later than now, one with the latest expiry; it returns no stored
\* token that has expired; and it returns the configured fallback exactly
\* when the store holds no token that has not expired.
C22_Answer(result) ==
    LET live == {t \in tokens : t.expiry > now} IN
    /\ live # {} =>
           \E t \in live : /\ t.token = result
                           /\ \A q \in live : q.expiry <= t.expiry
    /\ live = {} => result = MYTV_SUPER_TOKEN
    /\ \A t \in tokens : t.token = result => t.expiry > now

C27_CallerHeadersOverrideDefaults ==
    \A w \in UpstreamFrames :
        LET sent == req[w].sent
            defaults == DefaultHeaders(sent.url)
        IN  /\ DOMAIN sent.headers = DOMAIN defaults \cup DOMAIN sent.caller
            /\ \A name \in DOMAIN sent.caller :
                   sent.headers[name] = sent.caller[name]
            /\ \A name \in DOMAIN defaults \ DOMAIN sent.caller :
                   sent.headers[name] = defaults[name]

\* A caller's User-Agent has replaced a different default
C27_Witness ==
    \E w \in UpstreamFrames :
        LET sent == req[w].sent IN
        /\ "User-Agent" \in DOMAIN sent.caller
        /\ DefaultHeaders(sent.url)["User-Agent"] # sent.caller["User-Agent"]
        /\ sent.headers["User-Agent"] = sent.caller["User-Agent"]
        /\ sent.headers["Referer"] = DefaultHeaders(sent.url)["Referer"]

-----------------------------------------------------------------------------
(* Manifests and the cache (SpecProxy) *)

\* C23: a request dispatched to the HLS or DASH rewriter is never looked up
\* in the cache and never served from it, its step fetches upstream exactly
\* once, and that step creates or modifies no cache file, whatever the cache
\* holds.
C23_ManifestsBypassCache ==
    /\ [](\A w \in Workers :
            req[w].route \in {"hls", "mpd"} =>
                /\ ~req[w].checked
                /\ req[w].served # "cache"
                /\ req[w].pc = "done" => req[w].fetches = 1)
    /\ [][\A w \in Workers :
            req[w].pc \in {"hls", "mpd"} /\ req'[w] # req[w] =>
                cache' = cache]_vars

\* A manifest was fetched live while the cache held a valid entry
C23_Witness ==
    \E w \in Workers :
        /\ req[w].pc = "done" /\ req[w].route \in {"hls", "mpd"}
        /\ req[w].fetches = 1 /\ req[w].fetch_ok
        /\ \E path \in DOMAIN cache : is_cache_valid(FileStat(path))

-----------------------------------------------------------------------------
(* A channel with two sources *)

FailoverCatalog == {<<"x", U_TS>>, <<"x", U_FLV>>}

NextFailover ==
    \/ \E p \in FailoverCatalog, priority \in ProxyPriorities :
           AddChannelSource(p[1], p[2], priority)
    \/ \E w \in Workers, c \in Channels : ProxyStreamStart(w, c)
    \/ \E w \in Workers : CacheCheck(w)
    \/ \E w \in Workers : ServeCache(w)
    \/ \E w \in Workers : ProxyStreamFetch(w)
    \/ \E w \in Workers : ProxyStreamGenerate(w)

SpecFailover == Init /\ [][NextFailover]_vars

\* C30: one channel request selects one source and fetches at most once: a
\* request whose fetch failed, or whose stream failed mid-flight, is over
\* without a fetch of another source of the channel.
C30_NoFailoverWithinRequest ==
    /\ [](\A w \in Workers :
            req[w].kind = "channel" =>
                /\ req[w].fetches <= 1
                /\ req[w].fetches = 1 /\ ~req[w].fetch_ok =>
                       req[w].pc = "done")
    /\ [][\A w \in Workers :
            ~Free(w) /\ req'[w].pc # "done" =>
                req'[w].selected = req[w].selected]_vars

\* A request has ended on a failed fetch, its source is now inactive, and the
\* channel has another source that is active
C30_Witness ==
    \E w \in Workers, a \in Rows(sources), b \in Rows(sources) :
        /\ req[w].pc = "done" /\ req[w].kind = "channel"
        /\ req[w].fetches = 1 /\ ~req[w].fetch_ok
        /\ a.channel_id = req[w].channel_id /\ ~a.is_active
        /\ b.channel_id = req[w].channel_id /\ b.is_active

-----------------------------------------------------------------------------
(* No row is ever deleted (Spec) *)

Pairs(T) == {<<r.channel_id, r.url>> : r \in Rows(T)}

\* C29: no upsert, discovery update or outcome update removes a (channel,
\* URL) row: the set of pairs and the number of rows never shrink; and a
\* success recorded for an inactive source leaves it active.
C29_NeverDeletedOnlyDeactivated ==
    [][/\ Pairs(sources) \subseteq Pairs(sources')
       /\ BagCardinality(sources) <= BagCardinality(sources')
       /\ \A p \in Catalog, e \in Elapsed :
              (/\ \E r \in Matching(sources, p[1], p[2]) : ~r.is_active
               /\ UpdateSourceStatus(p[1], p[2], TRUE, e)) =>
                  /\ Matching(sources', p[1], p[2]) # {}
                  /\ \A r \in Matching(sources', p[1], p[2]) : r.is_active]_vars

\* Every pair of the catalogue is registered, and one source that failed
\* twice is still there and active after a success
C29_Witness ==
    /\ Pairs(sources) = Catalog
    /\ \E r \in Rows(sources) :
           r.fail_count = 2 /\ r.success_count = 1 /\ r.is_active

-----------------------------------------------------------------------------
(* update_source_status called from several request threads at once *)

\* The threads of the server (app.run serves each request in its own thread)
Threads == {"w1", "w2"}

AtomicChannel == "x"
AtomicUrl == U_TS

\* A thread outside update_source_status, and how many of its calls have
\* returned so far
UpdateIdle(success_calls, failure_calls) ==
    [pc |-> "idle", success |-> FALSE, response_time |-> 0,
     pending |-> EmptyBag,
     success_calls |-> success_calls, failure_calls |-> failure_calls]

InitThreads ==
    /\ sources = EmptyBag
    /\ tokens = {}
    /\ cache = <<>>
    /\ now = 0
    /\ req = [w \in Threads |-> UpdateIdle(0, 0)]

\* The calls begun so far: those that returned and those under way
RECURSIVE CallsBegun(_)
CallsBegun(W) ==
    IF W = {} THEN 0
    ELSE LET w == CHOOSE v \in W : TRUE
         IN  req[w].success_calls + req[w].failure_calls
               + (IF req[w].pc = "idle" THEN 0 ELSE 1)
               + CallsBegun(W \ {w})

\* Mutant: a connection writes without waiting for the database lock
DatabaseUnlockedAlways ==
    TRUE

\* SQLite lets one connection at a time hold a write transaction: the UPDATE
\* of line 190/198 waits while another connection has written and not yet
\* committed
DatabaseUnlocked ==
    \A v \in Threads : req[v].pc # "executed"

\* The row is there before the requests come: add_channel_source
RegisterAtomicSource ==
    /\ Matching(sources, AtomicChannel, AtomicUrl) = {}
    /\ DatabaseUnlocked
    /\ sources' = Upsert(sources, AtomicChannel, AtomicUrl, 1)
    /\ UNCHANGED <<tokens, cache, now, req>>

\* Lines 186-187: sqlite3.connect, conn.cursor
UpdateConnect(w, success, response_time) ==
    /\ req[w].pc = "idle"
    /\ Matching(sources, AtomicChannel, AtomicUrl) # {}
    /\ CallsBegun(Threads) < MaxOutcomes
    /\ req' = [req EXCEPT ![w].pc = "connected", ![w].success = success,
                          ![w].response_time = response_time]
    /\ UNCHANGED <<sources, tokens, cache, now>>

\* Lines 189-205: cursor.execute(UPDATE ...): the statement reads the row and
\* writes it inside the connection's transaction
UpdateExecute(w) ==
    /\ req[w].pc = "connected"
    /\ DatabaseUnlocked
    /\ req' = [req EXCEPT ![w].pc = "executed",
                          ![w].pending =
                              StatusUpdated(sources, AtomicChannel, AtomicUrl,
                                            req[w].success,
                                            req[w].response_time)]
    /\ UNCHANGED <<sources, tokens, cache, now>>

\* Lines 189-205: the lock is not released within the connection's timeout,
\* execute raises sqlite3.OperationalError and the call does not complete
UpdateLocked(w) ==
    /\ req[w].pc = "connected"
    /\ ~DatabaseUnlocked
    /\ req' = [req EXCEPT ![w] =
                  UpdateIdle(req[w].success_calls, req[w].failure_calls)]
    /\ UNCHANGED <<sources, tokens, cache, now>>

\* Line 207: conn.commit()
UpdateCommit(w) ==
    /\ req[w].pc = "executed"
    /\ sources' = req[w].pending
    /\ req' = [req EXCEPT ![w].pc = "committed", ![w].pending = EmptyBag]
    /\ UNCHANGED <<tokens, cache, now>>

\* Line 208: conn.close(), and the call returns
UpdateClose(w) ==
    /\ req[w].pc = "committed"
    /\ req' = [req EXCEPT ![w] =
                  IF req[w].success
                  THEN UpdateIdle(req[w].success_calls + 1,
                                  req[w].failure_calls)
                  ELSE UpdateIdle(req[w].success_calls,
                                  req[w].failure_calls + 1)]
    /\ UNCHANGED <<sources, tokens, cache, now>>

NextAtomic ==
    \/ RegisterAtomicSource
    \/ \E w \in Threads, success \in BOOLEAN, e \in ProxyElapsed :
           UpdateConnect(w, success, e)
    \/ \E w \in Threads : UpdateExecute(w)
    \/ \E w \in Threads : UpdateLocked(w)
    \/ \E w \in Threads : UpdateCommit(w)
    \/ \E w \in Threads : UpdateClose(w)

SpecAtomic == InitThreads /\ [][NextAtomic]_vars

\* The calls that have been applied: those that returned, and those
\* committed and about to return
RECURSIVE CallsApplied(_, _)
CallsApplied(W, success) ==
    IF W = {} THEN 0
    ELSE LET w == CHOOSE v \in W : TRUE
         IN  (IF success THEN req[w].success_calls ELSE req[w].failure_calls)
               + (IF req[w].pc = "committed" /\ req[w].success = success
                  THEN 1 ELSE 0)
               + CallsApplied(W \ {w}, success)

\* C25: whatever the interleaving of the threads' calls on one row, the row's
\* success_count is the number of success calls applied and its fail_count
\* the number of failure calls applied: no update is lost and none counts
\* twice.
C25_AtomicPerRow ==
    \A r \in Matching(sources, AtomicChannel, AtomicUrl) :
        /\ r.success_count = CallsApplied(Threads, TRUE)
        /\ r.fail_count = CallsApplied(Threads, FALSE)

\* A success call and a failure call by different threads have overlapped (one
\* is committed while the other has connected) after an earlier call returned
C25_Witness ==
    /\ req["w1"].pc = "committed" /\ req["w1"].success
    /\ req["w2"].pc = "connected" /\ ~req["w2"].success
    /\ req["w2"].success_calls = 1
    /\ C25_AtomicPerRow

-----------------------------------------------------------------------------
(* Two requests teeing into the same cache file *)

\* The number of chunks a response body may have
MaxChunks == 2

RaceKinds == {"channel", "segment"}

\* The cache file of the request: both threads ask for the same channel, or
\* for the same segment
RacePath(kind) ==
    IF kind = "channel" THEN get_cache_path("x", None)
    ELSE get_cache_path("x", SegmentId(S1))

\* The bytes of a file after `data` is written at `offset` (a write past the
\* end leaves a hole of zero bytes)
WriteAt(content, offset, data) ==
    [i \in 1..(IF Len(content) > offset + Len(data) THEN Len(content)
               ELSE offset + Len(data)) |->
        IF i > offset /\ i <= offset + Len(data) THEN data[i - offset]
        ELSE IF i <= Len(content) THEN content[i]
        ELSE "hole"]

\* Chunks first..last of the body thread w received
ChunksOf(w, first, last) ==
    [i \in 1..(last - first + 1) |-> <<w, first + i - 1>>]

RaceFile(content) ==
    [mtime |-> now, size |-> Len(content), content |-> content]

\* Lines 456-467 and 576-583: the cache check failed and the fetch answered
\* 200 with a body of n chunks
RaceFetched(w, kind, n) ==
    /\ req[w].pc = "idle"
    /\ req' = [req EXCEPT ![w] =
                  [pc |-> "fetched", kind |-> kind, n |-> n, offset |-> 0,
                   cache_path |-> RacePath(kind)]]
    /\ UNCHANGED <<sources, tokens, cache, now>>

\* open(cache_path, 'wb'), line 489 (before the first chunk) or line 603
\* (after the last): the file is created or truncated and this handle's
\* position is 0
RaceOpen(w) ==
    /\ req[w].pc = "fetched"
    /\ cache' = [path \in DOMAIN cache \cup {req[w].cache_path} |->
                    IF path = req[w].cache_path THEN RaceFile(<<>>)
                    ELSE cache[path]]
    /\ req' = [req EXCEPT ![w].pc = "open"]
    /\ UNCHANGED <<sources, tokens, now>>

\* cache_file.write(chunk), line 501: one chunk at this handle's position;
\* f.write(cache_data), line 604: the whole body
RaceWrite(w) ==
    /\ req[w].pc = "open" /\ req[w].offset < req[w].n
    /\ LET r == req[w]
           last == IF r.kind = "channel" THEN r.offset + 1 ELSE r.n
           data == ChunksOf(w, r.offset + 1, last)
       IN  /\ cache' = [cache EXCEPT ![r.cache_path] =
                  RaceFile(WriteAt(cache[r.cache_path].content, r.offset,
                                   data))]
           /\ req' = [req EXCEPT ![w].offset = last]
    /\ UNCHANGED <<sources, tokens, now>>

\* cache_file.close(), line 519, or the end of the with block, line 604
RaceClose(w) ==
    /\ req[w].pc = "open" /\ req[w].offset = req[w].n
    /\ req' = [req EXCEPT ![w].pc = "done"]
    /\ UNCHANGED <<sources, tokens, cache, now>>

NextRace ==
    \/ \E w \in Threads, kind \in RaceKinds, n \in 1..MaxChunks :
           RaceFetched(w, kind, n)
    \/ \E w \in Threads : RaceOpen(w)
    \/ \E w \in Threads : RaceWrite(w)
    \/ \E w \in Threads : RaceClose(w)

SpecRace == InitThreads /\ [][NextRace]_vars

\* C24: when two requests have teed into the same cache file and both have
\* finished, the file holds the complete body one of them wrote, not a
\* mixture of chunks of both.
C24_LastWriteWins ==
    \A w \in Threads : \A v \in Threads \ {w} :
        (/\ req[w].pc = "done" /\ req[v].pc = "done"
         /\ req[w].cache_path = req[v].cache_path) =>
            \E u \in {w, v} :
                cache[req[u].cache_path].content = ChunksOf(u, 1, req[u].n)

-----------------------------------------------------------------------------
(* Requests for two channels over one registry and one cache directory *)

\* Channel ids are free text of the route (<channel_id>)
IsolationChannels == {"x", "x_1"}
IsolationCatalog == {<<"x", U_TS>>, <<"x_1", U_TS>>}

S_1SEG == <<"http://", "h", "/", "v1", "/", "1", "_", "seg", "-", "1", ".ts">>
IsolationSegments == {S1, S_1SEG}

\* The segment requests made: each channel's playlist names its own segments
IsolationRequests == {<<"x", S_1SEG>>, <<"x_1", S1>>}

NextIsolation ==
    \/ \E p \in IsolationCatalog, priority \in ProxyPriorities :
           AddChannelSource(p[1], p[2], priority)
    \/ \E w \in Workers, c \in IsolationChannels : ProxyStreamStart(w, c)
    \/ \E w \in Workers : CacheCheck(w)
    \/ \E w \in Workers : ServeCache(w)
    \/ \E w \in Workers : ProxyStreamFetch(w)
    \/ \E w \in Workers : ProxyStreamGenerate(w)
    \/ \E w \in Workers, p \in IsolationRequests :
           ProxySegmentStart(w, p[1], p[2])
    \/ \E w \in Workers : ProxySegmentFetch(w)
    \/ \E w \in Workers : ProxySegmentGenerate(w)

SpecIsolation == Init /\ [][NextIsolation]_vars

\* The cache keys of a channel: its stream, and its segments
KeysOf(channel_id) ==
    {<<channel_id, segment_id>> :
        segment_id \in {None} \cup {SegmentId(u) : u \in IsolationSegments}}

PathsOf(channel_id) ==
    {get_cache_path(k[1], k[2]) : k \in KeysOf(channel_id)}

\* The file as it is, or that there is none
FileAt(C, path) ==
    IF path \in DOMAIN C THEN C[path] ELSE [mtime |-> -1, size |-> -1]

\* A step of a request for channel_id leaves the rows and the files of the
\* other channels as they were
C26_StepIsolated(w) ==
    req'[w] # req[w] /\ ~Free(w) =>
        \A c \in IsolationChannels \ {req[w].channel_id} :
            /\ {r \in Rows(sources') : r.channel_id = c}
                 = {r \in Rows(sources) : r.channel_id = c}
            /\ \A path \in PathsOf(c) : FileAt(cache', path) = FileAt(cache, path)

\* C26: a request for channel X, succeeding or failing, changes no source row
\* of another channel and no cache file keyed to another channel; and the
\* cache paths of distinct (channel, segment) keys are distinct.
C26_RequestsIsolated ==
    /\ [][\A w \in Workers : C26_StepIsolated(w)]_vars
    /\ [](\A c, d \in IsolationChannels :
            \A k \in KeysOf(c), l \in KeysOf(d) :
                k # l => get_cache_path(k[1], k[2]) # get_cache_path(l[1], l[2]))

-----------------------------------------------------------------------------
(* clean_cache, the hourly sweep, beside a request thread *)

\* main, lines 891-897: the sweep has a thread of its own; the other thread
\* serves segment requests
Sweeper == "w2"
Requester == "w1"

SweepRequests == {<<"x", S1>>, <<"y", S1>>}

\* filename.endswith('.ts') or filename.endswith('.stream')
IsCacheFileName(path) ==
    EndsWith(path, ".ts") \/ EndsWith(path, ".stream")

\* Line 860: if file_age > CACHE_TTL
Expired(file_age) ==
    file_age > CACHE_TTL

\* The sweep between two files: its `now`, and the names of os.listdir it
\* has not come to yet
SweepFrame(sweep_now, listing) ==
    [pc |-> "sweeping", now |-> sweep_now, listing |-> listing,
     file_path |-> None, file_age |-> 0]

\* Lines 851-854: now = time.time(), os.listdir(CACHE_DIR)
SweepStart ==
    /\ req[Sweeper].pc \in {"idle", "swept"}
    /\ req' = [req EXCEPT ![Sweeper] =
                  SweepFrame(now, {path \in DOMAIN cache :
                                       IsCacheFileName(path)})]
    /\ UNCHANGED <<sources, tokens, cache, now>>

\* Lines 855-858: file_age = now - os.path.getmtime(file_path)
SweepStat(path) ==
    /\ req[Sweeper].pc = "sweeping"
    /\ path \in req[Sweeper].listing
    /\ path \in DOMAIN cache
    /\ req' = [req EXCEPT ![Sweeper].pc = "stat",
                          ![Sweeper].file_path = path,
                          ![Sweeper].file_age =
                              req[Sweeper].now - cache[path].mtime]
    /\ UNCHANGED <<sources, tokens, cache, now>>

\* Lines 860-865: os.remove(file_path) if the age read is over the TTL
SweepRemove ==
    /\ req[Sweeper].pc = "stat"
    /\ LET r == req[Sweeper] IN
       /\ cache' = IF Expired(r.file_age)
                   THEN [path \in DOMAIN cache \ {r.file_path} |-> cache[path]]
                   ELSE cache
       /\ req' = [req EXCEPT ![Sweeper] =
                     SweepFrame(r.now, r.listing \ {r.file_path})]
    /\ UNCHANGED <<sources, tokens, now>>

\* Line 867: the loop is over
SweepEnd ==
    /\ req[Sweeper].pc = "sweeping"
    /\ req[Sweeper].listing = {}
    /\ req' = [req EXCEPT ![Sweeper].pc = "swept"]
    /\ UNCHANGED <<sources, tokens, cache, now>>

NextSweep ==
    \/ Tick
    \/ \E p \in SweepRequests : ProxySegmentStart(Requester, p[1], p[2])
    \/ CacheCheck(Requester)
    \/ ServeCache(Requester)
    \/ ProxySegmentFetch(Requester)
    \/ ProxySegmentGenerate(Requester)
    \/ SweepStart
    \/ \E path \in DOMAIN cache : SweepStat(path)
    \/ SweepRemove
    \/ SweepEnd

SpecSweep == InitThreads /\ [][NextSweep]_vars

\* The files a step deletes
Deleted == DOMAIN cache \ DOMAIN cache'

\* C28: a run of clean_cache deletes every cache file whose age is over the
\* TTL (none is left when the run ends) and deletes no cache file whose age
\* is at most the TTL, hence none that is_cache_valid accepts.
C28_SweepDeletesExactlyExpired ==
    /\ [][\A path \in Deleted :
             /\ now - cache[path].mtime > CACHE_TTL
             /\ ~is_cache_valid(FileStat(path))]_vars
    /\ [][req'[Sweeper].pc = "swept" /\ req[Sweeper].pc # "swept" =>
             \A path \in DOMAIN cache :
                 req[Sweeper].now - cache[path].mtime <= CACHE_TTL]_vars

-----------------------------------------------------------------------------
(* The HLS rewriter of enhanced-proxy-server.py: one re.sub over the text *)

\* The playlist texts: at most MaxText characters
MaxText == 5
NL == "\n"
TextChars == {"#", NL, "a"}
Texts == UNION {[1..n -> TextChars] : n \in 0..MaxText}

\* The end of the longest run of characters other than "\n" from position i
RECURSIVE RunEnd(_, _)
RunEnd(text, i) ==
    IF i < Len(text) /\ text[i + 1] # NL THEN RunEnd(text, i + 1) ELSE i

\* str.strip() of a match: white space here is "\n"
RECURSIVE StripNewlines(_)
StripNewlines(s) ==
    IF s = <<>> THEN s
    ELSE IF Head(s) = NL THEN StripNewlines(Tail(s))
    ELSE IF s[Len(s)] = NL THEN StripNewlines(SubSeq(s, 1, Len(s) - 1))
    ELSE s

\* rewrite_url(match), lines 524-540: group(0) is group(1), so the whole
\* match is replaced by the proxy URL
RegexRewriteUrl(channel_id, source_url, match) ==
    ProxyUrl(channel_id, FullUrl(source_url, StripNewlines(match)))

\* (?<=\n)([^#][^\n]+) at position i: "\n" before, a character other than
\* "#" (a "\n" is one), then one or more characters other than "\n"
RegexMatchesAt(text, i) ==
    /\ i > 1 /\ text[i - 1] = NL
    /\ text[i] # "#"
    /\ i < Len(text) /\ text[i + 1] # NL

\* re.sub, line 543: the matches from left to right, not overlapping; what
\* is not matched is copied. The result is a sequence of pieces: a copied
\* character, or a proxy URL
RECURSIVE RegexSub(_, _, _, _)
RegexSub(channel_id, source_url, text, i) ==
    IF i > Len(text) THEN <<>>
    ELSE IF RegexMatchesAt(text, i)
    THEN LET j == RunEnd(text, i + 1)
         IN  <<RegexRewriteUrl(channel_id, source_url, SubSeq(text, i, j))>>
                 \o RegexSub(channel_id, source_url, text, j + 1)
    ELSE <<(<<text[i]>>)>> \o RegexSub(channel_id, source_url, text, i + 1)

\* proxy_hls_manifest of enhanced-proxy-server.py, lines 514-549, for a
\* fetch that answered with `text`
EnhancedHlsManifest(w, channel_id, source_url, text) ==
    /\ Free(w)
    /\ req' = [req EXCEPT ![w] =
                  [pc |-> "done", kind |-> "enhanced_hls",
                   channel_id |-> channel_id, source_url |-> source_url,
                   text |-> text,
                   processed_content |->
                       RegexSub(channel_id, source_url, text, 1)]]
    /\ UNCHANGED <<sources, tokens, cache, now>>

NextRegex ==
    \E w \in Workers, text \in Texts : EnhancedHlsManifest(w, "x", M_HLS, text)

SpecRegex == Init /\ [][NextRegex]_vars

\* The lines of a sequence of pieces: split at sep
RECURSIVE SplitAt(_, _)
SplitAt(s, sep) ==
    LET k == FirstOf({sep}, s, 1)
    IN  IF k > Len(s) THEN <<s>>
        ELSE <<SubSeq(s, 1, k - 1)>> \o SplitAt(SubSeq(s, k + 1, Len(s)), sep)

\* C31: in the regex rewriter every reference line comes out as a proxy
\* segment URL, also a reference on the first line and a reference of one
\* character, and every directive line comes out as it was, also one that
\* follows a blank line: the lines of the result that are not empty are, in
\* order, the lines of the playlist that are not empty, references rewritten
\* and directives unchanged.
C31_RegexRewritesReferencesOnly ==
    \A w \in Workers :
        (req[w].pc = "done" /\ "processed_content" \in DOMAIN req[w]) =>
            LET r == req[w]
                NotEmpty(l) == l # <<>>
                lines == SelectSeq(SplitAt(r.text, NL), NotEmpty)
                out == SelectSeq(SplitAt(r.processed_content, <<NL>>), NotEmpty)
            IN  /\ Len(out) = Len(lines)
                /\ \A i \in 1..Len(lines) :
                       IF lines[i][1] = "#"
                       THEN out[i] = [k \in 1..Len(lines[i]) |-> <<lines[i][k]>>]
                       ELSE out[i] = <<ProxyUrl(r.channel_id,
                                          FullUrl(r.source_url, lines[i]))>>

-----------------------------------------------------------------------------
(* One outcome per request (SpecTee) *)

\* C32: a channel request records one outcome for its fetch: it calls
\* update_source_status at most once, so that a request streamed to
\* completion adds exactly 1 to the success_count of its source, and once the
\* outcome of the fetch is recorded no later step of the request changes a
\* success_count, a fail_count or an active flag.
C32_OneOutcomePerRequest ==
    /\ [](\A w \in Workers :
             "updates" \in DOMAIN req[w] => req[w].updates <= 1)
    /\ [][\A w \in Workers :
             (/\ "updates" \in DOMAIN req[w]
              /\ req[w].updates = 1
              /\ req[w].pc # "done"
              /\ req'[w] # req[w]) => sources' = sources]_vars

\* The step of a request that records a success: the fetch answered, or the
\* loop over the chunks ended
C32_RecordsSuccess(w) ==
    \/ req[w].pc = "fetch" /\ req'[w].pc = "stream"
    \/ req[w].pc = "read" /\ req'[w].pc = "done" /\ req'[w].raised = "none"

\* C32 as the code has it: a request records the outcome of its fetch and
\* then the outcome of its stream. Streamed to completion it has called
\* update_source_status twice, each time adding 1 to the success_count of
\* the row its URL matches; ended by an upstream error it has recorded the
\* success of the fetch and then one failure; ended by the client it has
\* recorded the fetch alone. No other step of the request changes the table.
C32_FetchThenStreamOutcome ==
    /\ [](\A w \in Workers :
             ("raised" \in DOMAIN req[w] /\ req[w].pc = "done") =>
                 req[w].updates =
                     IF req[w].raised = "GeneratorExit" THEN 1 ELSE 2)
    /\ [][\A w \in Workers :
             (/\ req[w].pc \in {"fetch", "stream", "read", "write", "yield"}
              /\ req[w].kind = "channel"
              /\ req'[w] # req[w]) =>
                 IF req'[w].updates = req[w].updates
                 THEN sources' = sources
                 ELSE /\ req'[w].updates = req[w].updates + 1
                      /\ Pairs(sources') = Pairs(sources)
                      /\ \A old \in Rows(sources), new \in Rows(sources') :
                             (old.channel_id = new.channel_id
                              /\ old.url = new.url) =>
                                 LET hit == /\ old.channel_id = req[w].channel_id
                                            /\ old.url = req[w].source_url
                                     ok  == C32_RecordsSuccess(w)
                                 IN  /\ new.success_count = old.success_count
                                            + (IF hit /\ ok THEN 1 ELSE 0)
                                     /\ new.fail_count = old.fail_count
                                            + (IF hit /\ ~ok THEN 1 ELSE 0)]_vars

\* A request for plain opaque media was streamed to completion and its
\* source has two successes on record
C32_Witness ==
    \E w \in Workers :
        /\ "raised" \in DOMAIN req[w] /\ req[w].pc = "done"
        /\ req[w].raised = "none" /\ req[w].sent = req[w].chunks
        /\ req[w].updates = 2
        /\ \E r \in Matching(sources, "x", U_TS) :
               r.success_count = 2 /\ r.fail_count = 0

-----------------------------------------------------------------------------
(* proxy_segment: generate(), chunk by chunk *)

\* Two variants of one segment: the same final path component in two
\* directories
S2 == <<"http://", "h", "/", "v2", "/", "seg", "-", "1", ".ts">>
VariantSegments == {S1, S2}

\* The cache file of a segment: besides its time and size, the chunks it
\* holds, the URL they were fetched from, and whether the write completed
SegmentFile(path, content, url, state) ==
    [q \in DOMAIN cache \cup {path} |->
        IF q = path
        THEN [mtime |-> now, size |-> SumSeq(content), content |-> content,
              url |-> url, state |-> state]
        ELSE cache[q]]

\* The frame of generate(): i chunks read, sent chunks taken by the client,
\* cache_data collected so far
SegmentFrame(r) ==
    [pc |-> "read", kind |-> r.kind, channel_id |-> r.channel_id,
     route |-> r.route, source_url |-> r.source_url,
     cache_path |-> r.cache_path, body |-> r.body, fetches |-> r.fetches,
     i |-> 0, sent |-> 0, cache_data |-> <<>>]

\* The generator is exhausted or closed: what the request did
SegmentDone(r, raised, saved) ==
    [pc |-> "done", kind |-> r.kind, channel_id |-> r.channel_id,
     route |-> r.route, source_url |-> r.source_url,
     cache_path |-> r.cache_path, body |-> r.body, fetches |-> r.fetches,
     i |-> r.i, sent |-> r.sent, cache_data |-> r.cache_data,
     raised |-> raised, saved |-> saved]

\* Line 592: the generator starts with an empty bytearray
SegmentGenerate(w) ==
    /\ req[w].pc = "stream" /\ req[w].kind = "segment"
    /\ req' = [req EXCEPT ![w] = SegmentFrame(req[w])]
    /\ UNCHANGED <<sources, tokens, cache, now>>

\* Mutant: only the latest chunk is kept
CollectedLatest(cache_data, chunk) ==
    <<chunk>>

\* Lines 597-598: if CACHE_ENABLED: cache_data.extend(chunk)
Collected(cache_data, chunk) ==
    IF CACHE_ENABLED THEN Append(cache_data, chunk) ELSE cache_data

\* Lines 595-598: iter_content gives the next chunk, which is collected; or
\* it raises, which the outer except logs; or it ends
SegmentRead(w) ==
    /\ req[w].pc = "read"
    /\ \E failed \in BOOLEAN :
           LET r == req[w] IN
           IF failed
           THEN req' = [req EXCEPT ![w] = SegmentDone(r, "upstream", "no")]
           ELSE IF r.i = Len(r.body)
                THEN req' = [req EXCEPT ![w].pc = "save"]
                ELSE req' = [req EXCEPT
                         ![w].i = @ + 1,
                         ![w].cache_data = Collected(@, r.body[r.i + 1]),
                         ![w].pc = "yield"]
    /\ UNCHANGED <<sources, tokens, cache, now>>

\* Line 599: yield chunk; a client that has gone away closes the generator:
\* GeneratorExit is raised at the yield and no except clause catches it
SegmentYield(w) ==
    /\ req[w].pc = "yield"
    /\ \E gone \in BOOLEAN :
           req' = [req EXCEPT ![w] =
               IF gone THEN SegmentDone(req[w], "GeneratorExit", "no")
               ELSE [req[w] EXCEPT !.sent = @ + 1, !.pc = "read"]]
    /\ UNCHANGED <<sources, tokens, cache, now>>

\* Lines 601-607: after the loop the collected bytes are written in one
\* open/write/close; the open may fail (nothing changes) and the write may
\* fail after the open has emptied the file (k chunks got through); both
\* are logged
SegmentSave(w) ==
    /\ req[w].pc = "save"
    /\ LET r == req[w] IN
       IF CACHE_ENABLED /\ r.cache_data # <<>>
       THEN \E outcome \in {"saved", "open_failed", "write_failed"} :
                CASE outcome = "saved" ->
                       /\ cache' = SegmentFile(r.cache_path, r.cache_data,
                                               r.source_url, "whole")
                       /\ req' = [req EXCEPT ![w] =
                                     SegmentDone(r, "none", "saved")]
                  [] outcome = "open_failed" ->
                       /\ cache' = cache
                       /\ req' = [req EXCEPT ![w] =
                                     SegmentDone(r, "none", "open_failed")]
                  [] OTHER ->
                       \E k \in 0..(Len(r.cache_data) - 1) :
                           /\ cache' = SegmentFile(r.cache_path,
                                           SubSeq(r.cache_data, 1, k),
                                           r.source_url, "truncated")
                           /\ req' = [req EXCEPT ![w] =
                                         SegmentDone(r, "none", "write_failed")]
       ELSE /\ cache' = cache
            /\ req' = [req EXCEPT ![w] = SegmentDone(r, "none", "no")]
    /\ UNCHANGED <<sources, tokens, now>>

NextSegment ==
    \/ Tick
    \/ \E w \in Workers, u \in VariantSegments : ProxySegmentStart(w, "x", u)
    \/ \E w \in Workers : CacheCheck(w)
    \/ \E w \in Workers : ServeCache(w)
    \/ \E w \in Workers : ProxySegmentFetch(w)
    \/ \E w \in Workers : SegmentGenerate(w)
    \/ \E w \in Workers : SegmentRead(w)
    \/ \E w \in Workers : SegmentYield(w)
    \/ \E w \in Workers : SegmentSave(w)

SpecSegment == Init /\ [][NextSegment]_vars

\* C33: a segment request answered from the cache gets bytes that were
\* fetched from the URL it asked for: the entry served was written by a
\* request for the same upstream URL.
C33_CacheHitServesRequestedUrl ==
    [][\A w \in Workers :
          (req[w].pc = "serve_cache" /\ req'[w].pc = "done") =>
              cache[req[w].cache_path].url = req[w].source_url]_vars

-----------------------------------------------------------------------------
(* The suffix rule in the verification collaborator and in the dispatcher *)

\* The URLs classified: scheme, host, directory, name, suffix, and a query
\* or none
ClassifiedSuffixes == {".m3u8", ".M3U8", ".mpd", ".MPD", ".ts", ".flv"}
ClassifiedUrls ==
    {<<scheme, host, "/">> \o dir \o <<"live", suffix>> \o query :
        scheme \in {"http://", "https://"},
        host \in {"h", "mytv", "MYTV"},
        dir \in {<<>>, <<"dir", "/">>},
        suffix \in ClassifiedSuffixes,
        query \in {<<>>, <<"?", "k=v">>}}

\* url.lower()
LowerUrl(url) ==
    [i \in 1..Len(url) |-> Lower(url[i])]

\* verify_stream, lines 227-232: which verification the URL gets
verify_stream(url) ==
    IF EndsWith(LowerUrl(url), ".m3u8") THEN "hls"
    ELSE IF EndsWith(LowerUrl(url), ".mpd") THEN "mpd"
    ELSE "opaque"

\* One URL put through the rule of verify_stream and through the rule of
\* proxy_stream (lines 420-424)
Classify(w, url) ==
    /\ Free(w)
    /\ req' = [req EXCEPT ![w] =
                  [pc |-> "done", kind |-> "classify", url |-> url,
                   verified_as |-> verify_stream(url),
                   dispatched_as |-> Dispatch(url)]]
    /\ UNCHANGED <<sources, tokens, cache, now>>

NextClassify ==
    \E w \in Workers, url \in ClassifiedUrls : Classify(w, url)

SpecClassify == Init /\ [][NextClassify]_vars

\* C35: verify_stream and the dispatcher of proxy_stream put every URL in
\* the same class, HLS, DASH or opaque, also a URL whose suffix is written
\* in upper case.
C35_SameSuffixRule ==
    \A w \in Workers :
        (req[w].pc = "done" /\ "verified_as" \in DOMAIN req[w]) =>
            req[w].verified_as = req[w].dispatched_as

-----------------------------------------------------------------------------
(* From the rewriter's proxy URL to the URL proxy_segment fetches *)

\* The resolved absolute URLs a rewriter embeds: plain ones, ones with a
\* space or a plus sign, ones that carry percent-escapes of their own, and
\* ones with a query string
EmbeddedNames == {"a", " ", "+", "%20", "%2B", "%2F"}
EmbeddedQueries == {<<>>, <<"?", "k=v">>, <<"?", "k=v", "&", "f=", "%2F">>}
EmbeddedUrls ==
    {<<scheme, "h", "/", "dir", "/", name, ".ts">> \o query :
        scheme \in {"http://", "https://"},
        name \in EmbeddedNames,
        query \in EmbeddedQueries}
EmbeddedChannels == {"x", "y"}

\* urllib.parse.unquote of one token: every %XX of it is replaced once
UnquoteToken(tok) ==
    CASE tok = "https%3A//" -> "https://"
      [] tok = "http%3A//"  -> "http://"
      [] tok = "%3F"        -> "?"
      [] tok = "%26"        -> "&"
      [] tok = "f%3D"       -> "f="
      [] tok = "k%3Dv"      -> "k=v"
      [] tok = "token%3D"   -> "token="
      [] tok = "%20"        -> " "
      [] tok = "%2B"        -> "+"
      [] tok = "%2F"        -> "/"
      [] tok = "%2520"      -> "%20"
      [] tok = "%252B"      -> "%2B"
      [] tok = "%252F"      -> "%2F"
      [] OTHER              -> tok

\* urllib.parse.unquote(segment_url), line 533
unquote(s) ==
    [i \in 1..Len(s) |-> UnquoteToken(s[i])]

\* request.args.get('url'), line 529: the value after "?url=", decoded by
\* the framework as a form value (a plus sign is a space, every %XX is
\* replaced once)
ArgsGetUrl(proxy_url) ==
    LET value == SubSeq(proxy_url, 4, Len(proxy_url))
    IN  [i \in 1..Len(value) |->
            IF value[i] = "+" THEN " " ELSE UnquoteToken(value[i])]

\* Lines 323-326: a rewriter embeds the resolved URL in the proxy URL it
\* writes into the manifest
RewriterEmbed(w, channel_id, full_url) ==
    /\ Free(w)
    /\ req' = [req EXCEPT ![w] =
                  [pc |-> "embedded", kind |-> "roundtrip",
                   channel_id |-> channel_id, full_url |-> full_url,
                   proxy_url |-> ProxyUrl(channel_id, full_url)]]
    /\ UNCHANGED <<sources, tokens, cache, now>>

\* Lines 527-533 and 576: the player requests the proxy URL, proxy_segment
\* takes the query value, unquotes it and fetches the result
SegmentReceive(w) ==
    /\ req[w].pc = "embedded"
    /\ LET segment_url == unquote(ArgsGetUrl(req[w].proxy_url))
       IN  req' = [req EXCEPT ![w] =
                      [pc |-> "done", kind |-> "roundtrip",
                       channel_id |-> req[w].channel_id,
                       full_url |-> req[w].full_url,
                       proxy_url |-> req[w].proxy_url,
                       fetched_url |-> segment_url]]
    /\ UNCHANGED <<sources, tokens, cache, now>>

NextRoundTrip ==
    \E w \in Workers :
        \/ \E channel_id \in EmbeddedChannels, full_url \in EmbeddedUrls :
               RewriterEmbed(w, channel_id, full_url)
        \/ SegmentReceive(w)

SpecRoundTrip == Init /\ [][NextRoundTrip]_vars

\* C34: the segment endpoint that receives a rewriter's proxy URL fetches
\* exactly the resolved URL the rewriter embedded, also when that URL
\* contains percent-escapes or a query string.
C34_RoundTripFetchesEmbeddedUrl ==
    \A w \in Workers :
        "fetched_url" \in DOMAIN req[w] =>
            req[w].fetched_url = req[w].full_url

-----------------------------------------------------------------------------
(* The counters of a source over any sequence of operations (Spec) *)

\* C36: success_count and fail_count of every source never decrease, and
\* avg_response_time changes only in a step that records a success for the
\* source; an upsert of an existing pair by the administrator or by the
\* discovery leaves both counters and avg_response_time as they were.
C36_CountersNeverLowered ==
    [][\A p \in Pairs(sources) :
          LET old == Row(sources, p[1], p[2])
              new == Row(sources', p[1], p[2])
          IN  /\ Matching(sources', p[1], p[2]) # {}
              /\ new.success_count >= old.success_count
              /\ new.fail_count >= old.fail_count
              /\ new.avg_response_time # old.avg_response_time =>
                     /\ new.success_count = old.success_count + 1
                     /\ \E e \in Elapsed :
                            UpdateSourceStatus(p[1], p[2], TRUE, e)
              /\ ((\E priority \in Priorities :
                       AddChannelSource(p[1], p[2], priority))
                    \/ UpdateChannelSources(p[1], p[2])) =>
                     /\ new.success_count = old.success_count
                     /\ new.fail_count = old.fail_count
                     /\ new.avg_response_time = old.avg_response_time]_vars

\* One source with a recorded failure has been upserted again (it is active
\* and still has its failure), beside one that keeps a success and its mean
C36_Witness ==
    \E r, q \in Rows(sources) :
        /\ r.fail_count = 1 /\ r.success_count = 0 /\ r.is_active
        /\ q.success_count = 1 /\ q.avg_response_time # RatZero

-----------------------------------------------------------------------------
(* Two requests for one channel: one tees, the other checks the cache *)

\* The one source of the channel both requests ask for
SharedCatalog == {<<"x", U_TS>>}

NextShared ==
    \/ \E p \in SharedCatalog, priority \in ProxyPriorities :
           AddChannelSource(p[1], p[2], priority)
    \/ \E w \in Threads : ProxyStreamStart(w, "x")
    \/ \E w \in Threads : CacheCheck(w)
    \/ \E w \in Threads : ServeCache(w)
    \/ \E w \in Threads : ProxyStreamFetch(w)
    \/ \E w \in Threads : TeeOpen(w)
    \/ \E w \in Threads : TeeRead(w)
    \/ \E w \in Threads : TeeWrite(w)
    \/ \E w \in Threads : TeeYield(w)

SpecShared == InitThreads /\ [][NextShared]_vars

\* The request of w is inside generate() with the cache file open, and the
\* file does not yet hold the whole upstream body
TeeingInto(w, path) ==
    /\ req[w].pc \in {"read", "write", "yield"}
    /\ req[w].cache_file
    /\ req[w].cache_path = path
    /\ cache[path].size < SumSeq(req[w].body)

\* C37: a request is never answered from a cache file that another request
\* is still teeing into: no step serves the file from the cache while a
\* writer has it open and has written only part of the stream to it.
C37_NoServeWhileWriterOpen ==
    [][\A v \in Threads :
          ServeCache(v) =>
              ~\E w \in Threads \ {v} : TeeingInto(w, req[v].cache_path)]_vars

-----------------------------------------------------------------------------
(* The tee of proxy_stream with the chunks it delivers and writes *)

\* What iter_content gives for a body: its chunks in order, with an empty
\* chunk before one of them or after the last, or none
WithEmptyChunk(body) ==
    {body} \cup
    {SubSeq(body, 1, k) \o <<0>> \o SubSeq(body, k + 1, Len(body)) :
        k \in 0..Len(body)}

\* The cache file of the stream: besides its time and size, the chunks
\* written to it, and whether a writer has it open
StreamFile(path, content, state) ==
    [q \in DOMAIN cache \cup {path} |->
        IF q = path
        THEN [mtime |-> now, size |-> SumSeq(content), content |-> content,
              state |-> state]
        ELSE cache[q]]

\* The frame of generate(): i chunks read, the chunks yielded to the client
\* so far, cache_file open or None
StreamFrame(r, chunks, cache_file) ==
    [pc |-> "read", kind |-> r.kind, channel_id |-> r.channel_id,
     route |-> r.route, source_url |-> r.source_url,
     cache_path |-> r.cache_path, response_time |-> r.response_time,
     chunks |-> chunks, i |-> 0, delivered |-> <<>>,
     cache_file |-> cache_file, cache_error |-> ~cache_file,
     raised |-> "none"]

\* The generator is exhausted or closed: what the request did
StreamDone(r, raised) ==
    [pc |-> "done", kind |-> r.kind, channel_id |-> r.channel_id,
     route |-> r.route, cache_path |-> r.cache_path, chunks |-> r.chunks,
     i |-> r.i, delivered |-> r.delivered, cache_error |-> r.cache_error,
     raised |-> raised]

\* Lines 510-519: the try body was left by exc ("none": the loop ended); the
\* outcome is recorded and finally closes the file, which stays as written
StreamLeave(w, r, exc) ==
    /\ sources' =
           IF exc = "none"
           THEN StatusUpdated(sources, r.channel_id, r.source_url, TRUE,
                              r.response_time)
           ELSE IF CaughtByExceptException(exc)
                THEN StatusUpdated(sources, r.channel_id, r.source_url,
                                   FALSE, 0)
                ELSE sources
    /\ cache' = IF r.cache_file
                THEN StreamFile(r.cache_path, cache[r.cache_path].content,
                                "closed")
                ELSE cache
    /\ req' = [req EXCEPT ![w] = StreamDone(r, exc)]

\* Lines 483-491: the generator starts; the cache file is opened for writing
\* (created or emptied), or the open fails and is logged
StreamOpen(w) ==
    /\ req[w].pc = "stream" /\ req[w].kind = "channel"
    /\ \E opened \in BOOLEAN, chunks \in WithEmptyChunk(req[w].body) :
           /\ req' = [req EXCEPT ![w] =
                  StreamFrame(req[w], chunks, CACHE_ENABLED /\ opened)]
           /\ cache' = IF CACHE_ENABLED /\ opened
                       THEN StreamFile(req[w].cache_path, <<>>, "writing")
                       ELSE cache
    /\ UNCHANGED <<sources, tokens, now>>

\* Mutant: every chunk is passed on, an empty one too
ChunkKeptAlways(chunk) ==
    TRUE

\* Line 495: if chunk
ChunkKept(chunk) ==
    chunk # 0

\* Lines 494-495: response.iter_content gives the next chunk, ends, or
\* raises; an empty chunk is passed over
StreamRead(w) ==
    /\ req[w].pc = "read"
    /\ \E failed \in BOOLEAN :
           LET r == req[w] IN
           IF failed
           THEN StreamLeave(w, r, "upstream")
           ELSE IF r.i = Len(r.chunks)
                THEN StreamLeave(w, r, "none")
                ELSE /\ req' = [req EXCEPT
                            ![w].i = @ + 1,
                            ![w].pc = IF ~ChunkKept(r.chunks[r.i + 1])
                                      THEN "read"
                                      ELSE IF r.cache_file
                                      THEN "write" ELSE "yield"]
                     /\ UNCHANGED <<sources, cache>>
    /\ UNCHANGED <<tokens, now>>

\* Lines 499-507: the chunk is written to the cache file; a failed write is
\* logged and the file closed and given up, and a close that raises inside
\* that handler leaves the try body
StreamWrite(w) ==
    /\ req[w].pc = "write"
    /\ \E written \in BOOLEAN, closed \in BOOLEAN :
           LET r == req[w]
               content == cache[r.cache_path].content
           IN  IF written
               THEN /\ cache' = StreamFile(r.cache_path,
                                           Append(content, r.chunks[r.i]),
                                           "writing")
                    /\ req' = [req EXCEPT ![w].pc = "yield"]
                    /\ UNCHANGED sources
               ELSE IF closed
               THEN /\ cache' = StreamFile(r.cache_path, content, "closed")
                    /\ req' = [req EXCEPT ![w].pc = "yield",
                                          ![w].cache_file = FALSE,
                                          ![w].cache_error = TRUE]
                    /\ UNCHANGED sources
               ELSE StreamLeave(w, [r EXCEPT !.cache_error = TRUE], "close")
    /\ UNCHANGED <<tokens, now>>

\* Line 509: yield chunk. The client takes the chunk, or it has gone away and
\* the server closes the generator, which raises GeneratorExit at the yield
StreamYield(w) ==
    /\ req[w].pc = "yield"
    /\ \E gone \in BOOLEAN :
           LET r == req[w] IN
           IF gone
           THEN StreamLeave(w, r, "GeneratorExit")
           ELSE /\ req' = [req EXCEPT
                       ![w].delivered = Append(@, r.chunks[r.i]),
                       ![w].pc = "read"]
                /\ UNCHANGED <<sources, cache>>
    /\ UNCHANGED <<tokens, now>>

NextStream ==
    \/ \E p \in SharedCatalog, priority \in ProxyPriorities :
           AddChannelSource(p[1], p[2], priority)
    \/ \E w \in Workers : ProxyStreamStart(w, "x")
    \/ \E w \in Workers : CacheCheck(w)
    \/ \E w \in Workers : ServeCache(w)
    \/ \E w \in Workers : ProxyStreamFetch(w)
    \/ \E w \in Workers : StreamOpen(w)
    \/ \E w \in Workers : StreamRead(w)
    \/ \E w \in Workers : StreamWrite(w)
    \/ \E w \in Workers : StreamYield(w)

SpecStream == Init /\ [][NextStream]_vars

\* The non-empty chunks of a sequence of chunks, in order
NonEmptyChunks(chunks) ==
    LET NonEmpty(c) == c # 0 IN SelectSeq(chunks, NonEmpty)

\* C39: at every moment of the tee the client has received exactly the
\* non-empty chunks among those read so far, in upstream order (the chunk
\* in hand not yet counted), so that a stream that ended by itself has
\* delivered all non-empty chunks of the upstream; and when it ended so with
\* no cache error, the closed cache file holds exactly the chunks that were
\* delivered.
C39_TeeDeliversAndCachesSameBytes ==
    \A w \in Workers :
        "delivered" \in DOMAIN req[w] =>
            LET r == req[w]
                read == NonEmptyChunks(SubSeq(r.chunks, 1, r.i))
            IN  /\ r.pc \in {"write", "yield"} =>
                       /\ read # <<>>
                       /\ r.delivered = SubSeq(read, 1, Len(read) - 1)
                /\ r.pc = "read" => r.delivered = read
                /\ r.pc = "done" =>
                       /\ \E k \in 0..Len(read) :
                              r.delivered = SubSeq(read, 1, k)
                       /\ r.raised = "none" =>
                              r.delivered = NonEmptyChunks(r.chunks)
                       /\ (r.raised = "none" /\ ~r.cache_error) =>
                              /\ cache[r.cache_path].state = "closed"
                              /\ cache[r.cache_path].content = r.delivered
                              /\ cache[r.cache_path].size =
                                     SumSeq(r.delivered)

\* A stream of two chunks with an empty chunk between them ended by itself:
\* the client got the two chunks and the closed file holds them
C39_Witness ==
    \E w \in Workers :
        /\ "delivered" \in DOMAIN req[w] /\ req[w].pc = "done"
        /\ req[w].raised = "none" /\ ~req[w].cache_error
        /\ req[w].chunks = <<8192, 0, MIN_CACHE_BYTES>>
        /\ req[w].delivered = <<8192, MIN_CACHE_BYTES>>
        /\ cache[req[w].cache_path].content = <<8192, MIN_CACHE_BYTES>>

=============================================================================
